---- MODULE Spec2Model ----
(***************************************************************************)
(* WebJage backend: the cache-backed analysis route (routes/analyze.js),   *)
(* the content analyzer service (services/contentAnalyzer.js) and the      *)
(* request validation middleware, and the browser extension in front of    *)
(* it (content script, background worker, popup), as state machines.       *)
(*                                                                         *)
(* JavaScript objects are functions from field names to values; a field    *)
(* that is undefined is a name outside the function's DOMAIN.  A string    *)
(* that only matters through a few facts (its length, its first 1000 code  *)
(* units, ...) is a record of those facts; a string whose characters       *)
(* matter (cleanText) is a sequence of one-character strings.  Time is in  *)
(* seconds.                                                                *)
(***************************************************************************)
EXTENDS Integers, Sequences, FiniteSets, TLC

VARIABLES
    requests,   \* POST /analyze requests: id -> position, body, key, response
    cache,      \* analysisCache.data: key -> <<>> (no entry) or <<entry>>
    hits,       \* analysisCache.stats.hits
    misses,     \* analysisCache.stats.misses
    aiCalls,    \* calls to claudeService.analyzeContent issued so far
    now,        \* Date.now(), in seconds
    nodeEnv,    \* process.env.NODE_ENV
    admin,      \* the response of the last stats / cache-listing / flush request
    call,       \* a pure function under test and its argument
    ret,        \* <<>> before the call returned, <<value>> after
    script,     \* the content script: the WebJageContentExtractor of a page
    worker,     \* the background worker: its analyzeContent messages
    storage,    \* chrome.storage.local: key -> <<>> (no item) or <<item>>
    sync,       \* chrome.storage.sync: the settings
    popup       \* the popup: the WebJagePopup and its toggles

vars == <<requests, cache, hits, misses, aiCalls, now, nodeEnv, admin, call, ret,
          script, worker, storage, sync, popup>>

extensionVars == <<script, worker, storage, sync, popup>>

serverVars == <<requests, cache, hits, misses, aiCalls, now, nodeEnv, admin>>

-----------------------------------------------------------------------------
(* Bounds of the model *)

MaxRequests == 2

MaxHours == 1

MaxLen == 5

MaxDistinct == 11

MaxKeys == 5

MaxItems == 2

MaxReadingMinutes == 180

MaxDays == 400

MaxRuns == 3

MaxMessages == 2

MaxUpdates == 2

-----------------------------------------------------------------------------
(* JavaScript objects *)

Has(obj, f) == f \in DOMAIN obj

EmptyObject == [f \in {} |-> 0]

\* { ...base, ...over }: the fields of over win
Spread(base, over) ==
    [f \in (DOMAIN base) \cup (DOMAIN over) |->
        IF f \in DOMAIN over THEN over[f] ELSE base[f]]

Max(a, b) == IF a >= b THEN a ELSE b

Min(a, b) == IF a <= b THEN a ELSE b

\* Math.ceil(a / b) for a >= 0, b > 0
CeilDiv(a, b) == (a + b - 1) \div b

-----------------------------------------------------------------------------
(* services/contentAnalyzer.js *)

\* content.text?.substring(0, 1000): a text is known by its first 1000 code
\* units (head) and by what follows them (tail)
Substring1000(content) ==
    IF Has(content, "text") /\ content.text.js = "string"
    THEN <<content.text.head>> ELSE <<>>

\* a key of the url and the text only
generateCacheKeyUrlText(url, content) ==
    <<url, Substring1000(content), <<>>>>

\* a key of the url, the whole text and the word count
generateCacheKeyWholeText(url, content) ==
    <<url,
      IF Has(content, "text") /\ content.text.js = "string"
      THEN <<content.text.head, content.text.tail>> ELSE <<>>,
      IF Has(content, "wordCount") THEN <<content.wordCount>> ELSE <<>>>>

\* JSON.stringify drops the fields that are undefined; md5 is taken to be
\* injective on the serialized strings, so the key is the serialized triple
generateCacheKey(url, content) ==
    <<url, Substring1000(content),
      IF Has(content, "wordCount") THEN <<content.wordCount>> ELSE <<>>>>

\* a reading time whose hours are rounded to the nearest hour
calculateReadingTimeRoundedHours(wordCount) ==
    IF wordCount < 1 THEN "< 1 min read"
    ELSE LET minutes == CeilDiv(wordCount, 225) IN
         IF minutes = 1 THEN "1 min read"
         ELSE IF minutes < 60 THEN ToString(minutes) \o " min read"
         ELSE ToString((minutes + 30) \div 60) \o "h " \o ToString(minutes % 60) \o "m read"

\* a reading time of the whole minutes only
calculateReadingTimeFloor(wordCount) ==
    IF wordCount < 1 THEN "< 1 min read"
    ELSE LET minutes == wordCount \div 225 IN
         IF minutes = 1 THEN "1 min read"
         ELSE IF minutes < 60 THEN ToString(minutes) \o " min read"
         ELSE ToString(minutes \div 60) \o "h " \o ToString(minutes % 60) \o "m read"

calculateReadingTime(wordCount) ==
    IF wordCount < 1 THEN "< 1 min read"
    ELSE LET minutes == CeilDiv(wordCount, 225) IN
         IF minutes = 1 THEN "1 min read"
         ELSE IF minutes < 60 THEN ToString(minutes) \o " min read"
         ELSE ToString(minutes \div 60) \o "h " \o ToString(minutes % 60) \o "m read"

\* what a function leaves behind when it throws instead of returning
Thrown(name) == [thrown |-> name]

\* !v for a value that is present: null, '', 0 and false are falsy; a value
\* without the field js is an object
Falsy(v) ==
    /\ Has(v, "js")
    /\ \/ v.js = "null"
       \/ v.js = "string" /\ v.length = 0
       \/ v.js = "number" /\ v.value = 0
       \/ v.js = "boolean" /\ ~v.flag

\* data.metadata || {}, metadata?.[...]: a metadata that is absent or null has
\* no fields
MetadataOf(data) ==
    IF Has(data, "metadata") /\ ~Has(data.metadata, "js")
    THEN data.metadata ELSE EmptyObject

\* a string of n code units
Str(id, n) == [js |-> "string", id |-> id, length |-> n]

\* v.length: strings and arrays have one
LengthOf(v) ==
    IF Has(v, "js") /\ v.js \in {"string", "array"} THEN <<v.length>> ELSE <<>>

\* an element of a list that is null: reading a property of it throws
IsNull(v) == Has(v, "js") /\ v.js = "null"

\* content.images?.length || 0
ArrayLength(content, f) == IF Has(content, f) THEN Len(content[f]) ELSE 0

\* content.images.filter(img => img.alt).length
AltCount(images) ==
    Cardinality({i \in DOMAIN images : Has(images[i], "alt") /\ images[i].alt # ""})

\* images.filter(img => img.alt) and images.some(img => img.alt) throw a
\* TypeError when they come to an element that is null
ImagesThrow(content) ==
    Has(content, "images") /\ \E i \in DOMAIN content.images : IsNull(content.images[i])

\* word count, average word length and readability of a text are functions of
\* the whole text: they are carried as the text's measured facts
calculateTechnicalMetrics(content) ==
    [wordCount        |-> content.text.words,
     characterCount   |-> content.text.length,
     averageWordLength |-> content.text.averageWordLength,
     imageCount       |-> ArrayLength(content, "images"),
     linkCount        |-> ArrayLength(content, "links"),
     readabilityScore |-> content.text.readability]

analyzeSEO(data) ==
    LET title       == IF Has(data, "title") /\ ~Falsy(data.title)
                       THEN data.title ELSE Str("", 0)
        content     == data.content
        metadata    == MetadataOf(data)
        hasDesc     == Has(metadata, "description")
        description == metadata.description
        between(len, low, high) == len # <<>> /\ len[1] >= low /\ len[1] <= high
    IN  IF ImagesThrow(content) THEN Thrown("TypeError")
        ELSE Spread(
          [titleOptimal          |-> between(LengthOf(title), 30, 60),
           hasMetaDescription    |-> hasDesc /\ ~Falsy(description),
           metaDescriptionLength |->
               IF hasDesc /\ LengthOf(description) # <<>>
               THEN LengthOf(description)[1] ELSE 0,
           hasHeadings           |-> content.text.headingMarker,
           \* a ratio, kept as <<numerator, denominator>>
           imageAltTextRatio     |->
               IF ArrayLength(content, "images") > 0
               THEN <<AltCount(content.images), Len(content.images)>>
               ELSE <<0, 1>>],
          Spread(
              \* title.length is undefined when the title is no string
              IF LengthOf(title) # <<>>
              THEN [titleLength |-> LengthOf(title)[1]] ELSE EmptyObject,
              \* metadata.description && ...: undefined without a description,
              \* the description itself when it is falsy
              IF ~hasDesc THEN EmptyObject
              ELSE IF Falsy(description) THEN [metaDescriptionOptimal |-> description]
              ELSE [metaDescriptionOptimal |-> between(LengthOf(description), 120, 160)]))

\* Math.round(100 * a / b) for a >= 0, b > 0
RoundPercent(a, b) == (200 * a + b) \div (2 * b)

BannedLinkTexts == {"click here", "read more", "more"}

\* link.text && link.text.length > 5 &&
\* !['click here', 'read more', 'more'].includes(link.text.toLowerCase()):
\* "throws" for a link that is null and for a text that is an array of more
\* than 5 elements, which has no toLowerCase
LinkOutcome(link) ==
    IF IsNull(link) THEN "throws"
    ELSE IF ~Has(link, "text") \/ Falsy(link.text) THEN "plain"
    ELSE IF Has(link.text, "js") /\ link.text.js = "array"
    THEN IF link.text.length > 5 THEN "throws" ELSE "plain"
    ELSE IF Has(link.text, "js") /\ link.text.js # "string" THEN "plain"
    ELSE IF link.text.length > 5 /\ link.text.lower \notin BannedLinkTexts
    THEN "descriptive" ELSE "plain"

\* content.links?.some(...) stops at the first link that is descriptive or
\* throws: "none" when it comes to the end
LinksOutcome(content) ==
    IF ~Has(content, "links") THEN "none"
    ELSE LET links == content.links
             stops == {i \in DOMAIN links : LinkOutcome(links[i]) # "plain"}
         IN  IF stops = {} THEN "none"
             ELSE LinkOutcome(links[CHOOSE i \in stops : \A j \in stops : i <= j])

analyzeAccessibility(content) ==
    IF ImagesThrow(content) \/ LinksOutcome(content) = "throws"
    THEN Thrown("TypeError")
    ELSE
    [hasImageAltText  |->
         Has(content, "images") /\ AltCount(content.images) > 0,
     imageAltTextCoverage |->
         IF ArrayLength(content, "images") > 0
         THEN RoundPercent(AltCount(content.images), Len(content.images))
         ELSE 100,
     hasDescriptiveLinks |-> LinksOutcome(content) = "descriptive",
     estimatedReadingLevel |-> content.text.readability]

SecondsPerDay == 86400

\* Math.floor(a / b) for b > 0 and any a
FloorDiv(a, b) == IF a >= 0 THEN a \div b ELSE -((-a + b - 1) \div b)

\* new Date(v).getTime(), as <<>> for an Invalid Date; times are in seconds
\* throughout, a number given as a date included: a number is the time itself,
\* true is the first millisecond, an object reads '[object Object]', a string
\* carries the time it parses to in its field date
ParseDate(v) ==
    IF ~Has(v, "js") THEN <<>>
    ELSE IF v.js = "number" THEN <<v.value>>
    ELSE IF v.js = "boolean" THEN <<0>>
    ELSE IF Has(v, "date") THEN v.date
    ELSE <<>>

\* metadata['article:published_time'] || metadata['datePublished'] ||
\* metadata['date'], as <<>> when all three are falsy
PublishDate(metadata) ==
    LET truthy(f) == Has(metadata, f) /\ ~Falsy(metadata[f])
    IN  IF truthy("article:published_time") THEN <<metadata["article:published_time"]>>
        ELSE IF truthy("datePublished") THEN <<metadata["datePublished"]>>
        ELSE IF truthy("date") THEN <<metadata["date"]>>
        ELSE <<>>

\* the freshness of a publish date that is daysDiff days old
FreshnessOf(daysDiff) ==
    IF daysDiff <= 7 THEN "Very Fresh"
    ELSE IF daysDiff <= 30 THEN "Fresh"
    ELSE IF daysDiff <= 90 THEN "Recent"
    ELSE IF daysDiff <= 365 THEN "Somewhat Old"
    ELSE "Old"

\* a freshness without the try block: toISOString throws on an Invalid Date
analyzeContentFreshnessUncaught(data, t) ==
    LET publishDate == PublishDate(MetadataOf(data))
    IN  IF publishDate = <<>>
        THEN [hasPublishDate |-> FALSE, freshness |-> "Unknown"]
        ELSE LET pubDate == ParseDate(publishDate[1]) IN
             IF pubDate = <<>>
             THEN Thrown("RangeError")
             ELSE LET daysDiff == FloorDiv(t - pubDate[1], SecondsPerDay) IN
                  [hasPublishDate |-> TRUE,
                   publishDate    |-> pubDate[1],
                   daysOld        |-> daysDiff,
                   freshness      |-> FreshnessOf(daysDiff)]

\* a freshness that rounds the days up
analyzeContentFreshnessCeil(data, t) ==
    LET publishDate == PublishDate(MetadataOf(data))
    IN  IF publishDate = <<>>
        THEN [hasPublishDate |-> FALSE, freshness |-> "Unknown"]
        ELSE LET pubDate == ParseDate(publishDate[1]) IN
             IF pubDate = <<>>
             THEN [hasPublishDate |-> FALSE, freshness |-> "Unknown"]
             ELSE LET daysDiff == -FloorDiv(pubDate[1] - t, SecondsPerDay) IN
                  [hasPublishDate |-> TRUE,
                   publishDate    |-> pubDate[1],
                   daysOld        |-> daysDiff,
                   freshness      |-> FreshnessOf(daysDiff)]

\* t is new Date()
analyzeContentFreshness(data, t) ==
    LET publishDate == PublishDate(MetadataOf(data))
    IN  IF publishDate = <<>>
        THEN [hasPublishDate |-> FALSE, freshness |-> "Unknown"]
        ELSE LET pubDate == ParseDate(publishDate[1]) IN
             IF pubDate = <<>>
             \* pubDate.toISOString() throws a RangeError on an Invalid Date,
             \* and the catch block answers
             THEN [hasPublishDate |-> FALSE, freshness |-> "Unknown"]
             ELSE LET daysDiff == FloorDiv(t - pubDate[1], SecondsPerDay) IN
                  [hasPublishDate |-> TRUE,
                   publishDate    |-> pubDate[1],
                   daysOld        |-> daysDiff,
                   freshness      |-> FreshnessOf(daysDiff)]

\* analysis.technicalMetrics?.imageCount > 0
MetricPositive(analysis, f) ==
    Has(analysis, "technicalMetrics") /\ analysis.technicalMetrics[f] > 0

\* a score that grows with every 25 words and is returned as it is
calculateConfidenceScoreByLength(analysis, originalData) ==
    LET wordCount == IF Has(originalData.content, "wordCount")
                     THEN originalData.content.wordCount ELSE 0
        s1 == 50 + (IF wordCount < 50 THEN -20 ELSE wordCount \div 25)
        s2 == s1 + (IF Cardinality(DOMAIN MetadataOf(originalData)) > 3
                    THEN 10 ELSE 0)
        s3 == s2 + (IF MetricPositive(analysis, "imageCount") THEN 5 ELSE 0)
        s4 == s3 + (IF MetricPositive(analysis, "linkCount") THEN 5 ELSE 0)
    IN  s4 - (IF wordCount > 10000 THEN 10 ELSE 0)

calculateConfidenceScore(analysis, originalData) ==
    LET wordCount == IF Has(originalData.content, "wordCount")
                     THEN originalData.content.wordCount ELSE 0
        s1 == 50 + (IF wordCount > 500 THEN 20
                    ELSE IF wordCount > 200 THEN 10
                    ELSE IF wordCount < 50 THEN -20 ELSE 0)
        s2 == s1 + (IF Cardinality(DOMAIN MetadataOf(originalData)) > 3
                    THEN 10 ELSE 0)
        s3 == s2 + (IF MetricPositive(analysis, "imageCount") THEN 5 ELSE 0)
        s4 == s3 + (IF MetricPositive(analysis, "linkCount") THEN 5 ELSE 0)
        s5 == s4 - (IF wordCount > 10000 THEN 10 ELSE 0)
    IN  Max(0, Min(100, s5))

\* an enhancement that stops before the confidence score
enhanceAnalysisPartial(aiAnalysis, originalData, t) ==
    Spread(aiAnalysis,
        [technicalMetrics |-> calculateTechnicalMetrics(originalData.content),
         seoInsights      |-> analyzeSEO(originalData),
         accessibility    |-> analyzeAccessibility(originalData.content),
         contentFreshness |-> analyzeContentFreshness(originalData, t)])

\* an enhancement in which the fields of the AI win over the local ones
enhanceAnalysisAiWins(aiAnalysis, originalData, t) ==
    LET e1 == [technicalMetrics |-> calculateTechnicalMetrics(originalData.content),
               seoInsights      |-> analyzeSEO(originalData),
               accessibility    |-> analyzeAccessibility(originalData.content),
               contentFreshness |-> analyzeContentFreshness(originalData, t)]
        e2 == IF Has(originalData.content, "wordCount") /\
                 originalData.content.wordCount # 0
              THEN Spread(e1, [readingTime |->
                                 calculateReadingTime(originalData.content.wordCount)])
              ELSE e1
    IN  Spread(Spread(e2, [confidenceScore |-> calculateConfidenceScore(e2, originalData)]),
               aiAnalysis)

\* enhanced = { ...aiAnalysis }, then the assignments in source order; what a
\* part throws, enhanceAnalysis throws
enhanceAnalysis(aiAnalysis, originalData, t) ==
    LET seo       == analyzeSEO(originalData)
        access    == analyzeAccessibility(originalData.content)
        freshness == analyzeContentFreshness(originalData, t)
        e1 == Spread(aiAnalysis,
                 [technicalMetrics |-> calculateTechnicalMetrics(originalData.content),
                  seoInsights      |-> seo,
                  accessibility    |-> access,
                  contentFreshness |-> freshness])
        e2 == IF Has(originalData.content, "wordCount") /\
                 originalData.content.wordCount # 0
              THEN Spread(e1, [readingTime |->
                                 calculateReadingTime(originalData.content.wordCount)])
              ELSE e1
    IN  IF Has(seo, "thrown") THEN seo
        ELSE IF Has(access, "thrown") THEN access
        ELSE IF Has(freshness, "thrown") THEN freshness
        ELSE Spread(e2, [confidenceScore |-> calculateConfidenceScore(e2, originalData)])

\* what preprocessContent hands to the AI service; keyPhrases and structure
\* are computed from the cleaned text alone (extractKeyPhrases,
\* analyzeTextStructure) and are part of what cleaned stands for
preprocessContent(content) ==
    LET wordCount == IF Has(content, "wordCount") THEN content.wordCount ELSE 0
    IN  [text      |-> [js |-> "string", cleaned |-> content.text.head,
                        rest |-> content.text.tail],
         wordCount |-> wordCount,
         images    |-> IF Has(content, "images") THEN content.images ELSE <<>>,
         links     |-> IF Has(content, "links") THEN content.links ELSE <<>>,
         estimatedReadingTime |-> calculateReadingTime(wordCount)]

\* a string whose characters matter is a sequence of one-character strings
Whitespace == {" ", "\n", "\t", "\r"}

\* \w
WordChars ==
    {"a", "b", "c", "d", "e", "f", "g", "h", "i", "j", "k", "l", "m",
     "n", "o", "p", "q", "r", "s", "t", "u", "v", "w", "x", "y", "z",
     "A", "B", "C", "D", "E", "F", "G", "H", "I", "J", "K", "L", "M",
     "N", "O", "P", "Q", "R", "S", "T", "U", "V", "W", "X", "Y", "Z",
     "0", "1", "2", "3", "4", "5", "6", "7", "8", "9", "_"}

\* . , ! ? ; : ( ) - " '
KeptPunctuation == {".", ",", "!", "?", ";", ":", "(", ")", "-", "\"", "'"}

\* .replace(/\s+/g, ' ')
RECURSIVE CollapseWhitespace(_)
CollapseWhitespace(s) ==
    IF s = <<>> THEN <<>>
    ELSE IF Head(s) \in Whitespace
    THEN IF Len(s) > 1 /\ s[2] \in Whitespace
         THEN CollapseWhitespace(Tail(s))
         ELSE <<" ">> \o CollapseWhitespace(Tail(s))
    ELSE <<Head(s)>> \o CollapseWhitespace(Tail(s))

\* .replace(/[^\w\s\.,!?;:()\-"']/g, '')
StripSpecial(s) ==
    SelectSeq(s, LAMBDA c : c \in WordChars \cup Whitespace \cup KeptPunctuation)

RECURSIVE TrimStart(_)
TrimStart(s) ==
    IF s # <<>> /\ Head(s) \in Whitespace THEN TrimStart(Tail(s)) ELSE s

RECURSIVE TrimEnd(_)
TrimEnd(s) ==
    IF s # <<>> /\ s[Len(s)] \in Whitespace
    THEN TrimEnd(SubSeq(s, 1, Len(s) - 1)) ELSE s

\* .trim()
Trim(s) == TrimEnd(TrimStart(s))

\* an empty text is falsy and gives ''
cleanText(text) ==
    IF text = <<>> THEN <<>>
    ELSE Trim(StripSpecial(CollapseWhitespace(text)))

-----------------------------------------------------------------------------
(* JavaScript values of a request body.  A primitive carries its kind in  *)
(* the field js; an object is a function from its field names and carries *)
(* no js field; an undefined field is absent.                             *)

TypeOf(v) ==
    IF ~Has(v, "js") THEN "object"
    ELSE IF v.js \in {"null", "array"} THEN "object"
    ELSE v.js

\* !obj.f || typeof obj.f !== kind
MissingOrNot(obj, f, kind) ==
    \/ ~Has(obj, f)
    \/ Falsy(obj[f])
    \/ TypeOf(obj[f]) # kind

-----------------------------------------------------------------------------
(* routes/analyze.js: validation middleware *)

TOO_SHORT_CONTENT_LENGTH == 50

TOO_LONG_CONTENT_LENGTH == 50000

\* a validation that rejects the minimum length itself
validateAnalysisRequestOffByOne(body) ==
    IF MissingOrNot(body, "url", "string") THEN 400
    ELSE IF MissingOrNot(body, "content", "object") THEN 400
    ELSE IF MissingOrNot(body.content, "text", "string") THEN 400
    ELSE IF body.content.text.length <= TOO_SHORT_CONTENT_LENGTH THEN 400
    ELSE IF body.content.text.length > TOO_LONG_CONTENT_LENGTH THEN 400
    ELSE 0

\* 400 when a check answers, 0 when next() is called
validateAnalysisRequest(body) ==
    IF MissingOrNot(body, "url", "string") THEN 400
    ELSE IF MissingOrNot(body, "content", "object") THEN 400
    ELSE IF MissingOrNot(body.content, "text", "string") THEN 400
    ELSE IF body.content.text.length < TOO_SHORT_CONTENT_LENGTH THEN 400
    ELSE IF body.content.text.length > TOO_LONG_CONTENT_LENGTH THEN 400
    ELSE 0

-----------------------------------------------------------------------------
(* analysisCache = new NodeCache({ stdTTL: 3600 }) *)

\* a TTL given in minutes
stdTTLMinutes == 3600 \div 60

stdTTL == 3600

NoEntry == <<>>

\* node-cache _check: an entry is expired once its time t lies before now
Live(c, key, t) == c[key] # NoEntry /\ ~(c[key][1].t < t)

\* a lookup that never finds its key
CacheGetNever(c, key, t) == <<>>

\* get(key): the value of a live entry, as <<value>>, or <<>>
CacheGet(c, key, t) == IF Live(c, key, t) THEN <<c[key][1].v>> ELSE <<>>

\* the data after get / has / getTtl of key: an expired entry is deleted
CacheChecked(c, key, t) ==
    IF c[key] # NoEntry /\ ~Live(c, key, t) THEN [c EXCEPT ![key] = NoEntry] ELSE c

\* a set that stores nothing
CacheSetDropped(c, key, value, t, waiting) == c

\* set(key, value): the entry is written whole, expiring stdTTL after now;
\* writtenAt and pending are history (the time of the write and the requests
\* for this key that were awaiting their AI call at that time)
CacheSet(c, key, value, t, waiting) ==
    [c EXCEPT ![key] = <<[v |-> value, t |-> t + stdTTL,
                          writtenAt |-> t, pending |-> waiting]>>]

\* keys(): every stored key, expired or not
CacheKeys(c) == {k \in DOMAIN c : c[k] # NoEntry}

-----------------------------------------------------------------------------
(* The requests, AI outcomes and times the model draws from *)

\* two texts that agree on their first 1000 code units, and a text of 49
Text1 ==
    [js |-> "string", length |-> 1200, head |-> "h1", tail |-> "t1",
     words |-> 210, averageWordLength |-> 5, readability |-> "Standard",
     headingMarker |-> FALSE]

Text2 ==
    [js |-> "string", length |-> 1500, head |-> "h1", tail |-> "t2",
     words |-> 260, averageWordLength |-> 6, readability |-> "Difficult",
     headingMarker |-> TRUE]

TextShort ==
    [js |-> "string", length |-> 49, head |-> "h0", tail |-> "",
     words |-> 9, averageWordLength |-> 4, readability |-> "Easy",
     headingMarker |-> FALSE]

Body1 ==
    [url |-> Str("https://a.example/", 18), title |-> Str("A", 40),
     content |-> [text |-> Text1, wordCount |-> 300]]

\* the key of Body1, another page
Body2 ==
    [url |-> Str("https://a.example/", 18), title |-> Str("A2", 12),
     content |-> [text |-> Text2, wordCount |-> 300,
                  images |-> <<[src |-> "i.png", alt |-> "logo"]>>,
                  links |-> <<[url |-> "/x", text |-> [lower |-> "more", length |-> 4]]>>],
     metadata |-> [description |-> Str("d", 130)]]

Body3 ==
    [url |-> Str("https://b.example/", 18),
     content |-> [text |-> Text1]]

BodyInvalid ==
    [url |-> Str("https://a.example/", 18),
     content |-> [text |-> TextShort, wordCount |-> 9]]

ValidBodies == {Body1, Body2, Body3}

Bodies == ValidBodies \cup {BodyInvalid}

Keys == {generateCacheKey(b.url, b.content) : b \in ValidBodies}

\* what claudeService.analyzeContent resolves with
AiResults ==
    {[summary |-> "s1", qualityScore |-> 8],
     [summary |-> "s2", readingTime |-> "9 min read", cached |-> TRUE,
      timestamp |-> -1]}

\* what claudeService.analyzeContent rejects with
AiErrors ==
    {[name |-> "AnthropicError", code |-> ""],
     [name |-> "Error", code |-> "ENOTFOUND"],
     [name |-> "Error", code |-> "ECONNREFUSED"],
     [name |-> "Error", code |-> ""]}

\* the start, and a second before and after every full TTL
Times == {0} \cup {h * stdTTL + d : h \in 1..MaxHours, d \in {-1, 1}}

RequestIds == 1..MaxRequests

-----------------------------------------------------------------------------
(* routes/analyze.js: POST /analyze *)

\* pc, body, key, processedContent, status and resp are the handler's; the
\* rest is history:
\* the outcome of the cache lookup, the AI calls this request issued, whether a
\* request for the same key was awaiting its AI call when this one looked up,
\* the error its AI call rejected with, whether a flush followed its write to
\* the cache, whether its caller went away while it was awaiting the AI
IdleRequest ==
    [pc |-> "idle", body |-> EmptyObject, key |-> <<>>, lookup |-> "none",
     processedContent |-> EmptyObject, aiCalls |-> 0, overlapped |-> FALSE, aiError |-> <<>>, flushed |-> FALSE,
     abandoned |-> FALSE, status |-> 0, resp |-> EmptyObject]

\* the requests for key that are awaiting their AI call, r apart
Awaiting(r, key) ==
    {q \in RequestIds \ {r} : requests[q].pc = "awaiting" /\ requests[q].key = key}

\* the catch block without its network branch
CatchResponseNoNetwork(error) ==
    IF error.name = "AnthropicError"
    THEN [status |-> 503, error |-> "AI Service Error"]
    ELSE [status |-> 500, error |-> "Analysis Failed"]

\* the catch block: the status and the error of the response
CatchResponse(error) ==
    IF error.name = "AnthropicError"
    THEN [status |-> 503, error |-> "AI Service Error"]
    ELSE IF error.code = "ENOTFOUND" \/ error.code = "ECONNREFUSED"
    THEN [status |-> 503, error |-> "Service Unavailable"]
    ELSE [status |-> 500, error |-> "Analysis Failed"]

\* a cache hit that answers the stored value as it is
HitAsStored(r, body, cacheKey, cachedResult) ==
    /\ hits' = hits + 1
    /\ requests' = [requests EXCEPT ![r] =
           [@ EXCEPT !.pc = "done", !.body = body, !.key = cacheKey,
                     !.lookup = "hit", !.status = 200,
                     !.resp = cachedResult]]
    /\ UNCHANGED <<misses, aiCalls>>

\* a cache hit that answers the stored value and calls the AI to refresh it
HitRefreshing(r, body, cacheKey, cachedResult) ==
    /\ hits' = hits + 1
    /\ aiCalls' = aiCalls + 1
    /\ requests' = [requests EXCEPT ![r] =
           [@ EXCEPT !.pc = "done", !.body = body, !.key = cacheKey,
                     !.lookup = "hit", !.status = 200, !.aiCalls = @ + 1,
                     !.resp = Spread(cachedResult,
                                [cached |-> TRUE, timestamp |-> now])]]
    /\ UNCHANGED misses

\* cache hit: answer the stored value with cached=true
Hit(r, body, cacheKey, cachedResult) ==
    /\ hits' = hits + 1
    /\ requests' = [requests EXCEPT ![r] =
           [@ EXCEPT !.pc = "done", !.body = body, !.key = cacheKey,
                     !.lookup = "hit", !.status = 200,
                     !.resp = Spread(cachedResult,
                                [cached |-> TRUE, timestamp |-> now])]]
    /\ UNCHANGED <<misses, aiCalls>>

\* a plausible single-flight change: a request that finds another one for its
\* key awaiting the AI joins that call instead of issuing its own
MissJoining(r, body, cacheKey) ==
    /\ misses' = misses + 1
    /\ aiCalls' = IF Awaiting(r, cacheKey) # {} THEN aiCalls ELSE aiCalls + 1
    /\ requests' = [requests EXCEPT ![r] =
           [@ EXCEPT !.pc = "awaiting", !.body = body, !.key = cacheKey,
                     !.lookup = "miss",
                     !.processedContent = preprocessContent(body.content),
                     !.aiCalls = IF Awaiting(r, cacheKey) # {} THEN @ ELSE @ + 1,
                     !.overlapped = Awaiting(r, cacheKey) # {}]]
    /\ UNCHANGED hits

\* cache miss: call claudeService.analyzeContent and await it
Miss(r, body, cacheKey) ==
    /\ misses' = misses + 1
    /\ aiCalls' = aiCalls + 1
    /\ requests' = [requests EXCEPT ![r] =
           [@ EXCEPT !.pc = "awaiting", !.body = body, !.key = cacheKey,
                     !.lookup = "miss",
                     !.processedContent = preprocessContent(body.content),
                     !.aiCalls = @ + 1,
                     !.overlapped = Awaiting(r, cacheKey) # {}]]
    /\ UNCHANGED hits

\* the handler up to the await: validation, cache lookup and, on a miss, the
\* call of claudeService.analyzeContent
Analyze(r, body) ==
    /\ requests[r].pc = "idle"
    /\ \A q \in 1..(r - 1) : requests[q].pc # "idle"
    /\ UNCHANGED <<now, nodeEnv, admin, call, ret, extensionVars>>
    /\ IF validateAnalysisRequest(body) = 400
       THEN /\ requests' = [requests EXCEPT ![r] =
                   [@ EXCEPT !.pc = "done", !.body = body, !.status = 400,
                             !.resp = [error |-> "Validation Error"]]]
            /\ UNCHANGED <<cache, hits, misses, aiCalls>>
       ELSE LET cacheKey     == generateCacheKey(body.url, body.content)
                cachedResult == CacheGet(cache, cacheKey, now)
            IN  /\ cache' = CacheChecked(cache, cacheKey, now)
                /\ IF cachedResult # <<>>
                   THEN Hit(r, body, cacheKey, cachedResult[1])
                   ELSE Miss(r, body, cacheKey)

\* a handler that caches the AI result as it came and enhances the answer only
AiResolveUnenhanced(r, aiAnalysis) ==
    /\ requests[r].pc = "awaiting"
    /\ LET finalAnalysis == enhanceAnalysis(aiAnalysis, requests[r].body, now)
       IN  IF Has(finalAnalysis, "thrown")
           THEN LET error == [name |-> finalAnalysis.thrown, code |-> ""]
                IN  /\ cache' = cache
                    /\ requests' = [requests EXCEPT ![r] =
                           [@ EXCEPT !.pc = "done",
                                     !.status = CatchResponse(error).status,
                                     !.resp = [error |-> CatchResponse(error).error]]]
           ELSE /\ cache' = CacheSet(cache, requests[r].key, aiAnalysis, now,
                                     Awaiting(r, requests[r].key))
                /\ requests' = [requests EXCEPT ![r] =
                       [@ EXCEPT !.pc = "done", !.status = 200,
                                 !.resp = Spread(finalAnalysis,
                                            [cached |-> FALSE, timestamp |-> now])]]
    /\ UNCHANGED <<hits, misses, aiCalls, now, nodeEnv, admin, call, ret, extensionVars>>

\* the AI call resolved: enhance, cache, respond; when enhanceAnalysis throws,
\* the catch block answers and nothing is cached
AiResolve(r, aiAnalysis) ==
    /\ requests[r].pc = "awaiting"
    /\ LET finalAnalysis == enhanceAnalysis(aiAnalysis, requests[r].body, now)
       IN  IF Has(finalAnalysis, "thrown")
           THEN LET error == [name |-> finalAnalysis.thrown, code |-> ""]
                IN  /\ cache' = cache
                    /\ requests' = [requests EXCEPT ![r] =
                           [@ EXCEPT !.pc = "done",
                                     !.status = CatchResponse(error).status,
                                     !.resp = [error |-> CatchResponse(error).error]]]
           ELSE /\ cache' = CacheSet(cache, requests[r].key, finalAnalysis, now,
                                     Awaiting(r, requests[r].key))
                /\ requests' = [requests EXCEPT ![r] =
                       [@ EXCEPT !.pc = "done", !.status = 200,
                                 !.resp = Spread(finalAnalysis,
                                            [cached |-> FALSE, timestamp |-> now])]]
    /\ UNCHANGED <<hits, misses, aiCalls, now, nodeEnv, admin, call, ret, extensionVars>>

\* the caller gives up while the handler awaits the AI: the handler is not
\* told and runs on, the await, the cache write and res.json included
Abandon(r) ==
    /\ requests[r].pc = "awaiting"
    /\ ~requests[r].abandoned
    /\ requests' = [requests EXCEPT ![r].abandoned = TRUE]
    /\ UNCHANGED <<cache, hits, misses, aiCalls, now, nodeEnv, admin, call, ret, extensionVars>>

\* a catch block that caches what it answers
AiRejectCached(r, error) ==
    /\ requests[r].pc = "awaiting"
    /\ cache' = CacheSet(cache, requests[r].key,
                         [error |-> CatchResponse(error).error], now,
                         Awaiting(r, requests[r].key))
    /\ requests' = [requests EXCEPT ![r] =
           [@ EXCEPT !.pc = "done", !.aiError = <<error>>,
                     !.status = CatchResponse(error).status,
                     !.resp = [error |-> CatchResponse(error).error]]]
    /\ UNCHANGED <<hits, misses, aiCalls, now, nodeEnv, admin, call, ret, extensionVars>>

\* the AI call rejected: the catch block answers
AiReject(r, error) ==
    /\ requests[r].pc = "awaiting"
    /\ requests' = [requests EXCEPT ![r] =
           [@ EXCEPT !.pc = "done", !.aiError = <<error>>,
                     !.status = CatchResponse(error).status,
                     !.resp = [error |-> CatchResponse(error).error]]]
    /\ UNCHANGED <<cache, hits, misses, aiCalls, now, nodeEnv, admin, call, ret, extensionVars>>

-----------------------------------------------------------------------------
(* routes/analyze.js: GET /stats, GET /cache, DELETE /cache *)

Stats ==
    /\ admin' = [op |-> "stats", status |-> 200]
    /\ UNCHANGED <<requests, cache, hits, misses, aiCalls, now, nodeEnv, call, ret, extensionVars>>

Forbidden(op) == [op |-> op, status |-> 403]

\* getTtl and has check every key, which deletes the expired entries
CacheList ==
    /\ IF nodeEnv # "development"
       THEN admin' = Forbidden("list") /\ cache' = cache
       ELSE /\ admin' = [op |-> "list", status |-> 200]
            /\ cache' = [k \in Keys |-> IF Live(cache, k, now) THEN cache[k] ELSE NoEntry]
    /\ UNCHANGED <<requests, hits, misses, aiCalls, now, nodeEnv, call, ret, extensionVars>>

\* a flush without the development-mode check
CacheFlushUnguarded ==
    /\ admin' = [op |-> "flush", status |-> 200]
    /\ cache' = [k \in Keys |-> NoEntry]
    /\ hits' = 0
    /\ misses' = 0
    /\ requests' = [r \in RequestIds |->
           IF requests[r].pc = "done" /\ requests[r].lookup = "miss" /\ requests[r].status = 200
           THEN [requests[r] EXCEPT !.flushed = TRUE] ELSE requests[r]]
    /\ UNCHANGED <<aiCalls, now, nodeEnv, call, ret, extensionVars>>

\* a flush that resets the statistics and keeps the data
CacheFlushStatsOnly ==
    /\ IF nodeEnv # "development"
       THEN admin' = Forbidden("flush") /\ UNCHANGED <<requests, cache, hits, misses>>
       ELSE /\ admin' = [op |-> "flush", status |-> 200]
            /\ cache' = cache
            /\ hits' = 0
            /\ misses' = 0
            /\ requests' = [r \in RequestIds |->
                   IF requests[r].pc = "done" /\ requests[r].lookup = "miss" /\ requests[r].status = 200
                   THEN [requests[r] EXCEPT !.flushed = TRUE] ELSE requests[r]]
    /\ UNCHANGED <<aiCalls, now, nodeEnv, call, ret, extensionVars>>

\* flushAll empties the data and resets the statistics
CacheFlush ==
    /\ IF nodeEnv # "development"
       THEN admin' = Forbidden("flush") /\ UNCHANGED <<requests, cache, hits, misses>>
       ELSE /\ admin' = [op |-> "flush", status |-> 200]
            /\ cache' = [k \in Keys |-> NoEntry]
            /\ hits' = 0
            /\ misses' = 0
            /\ requests' = [r \in RequestIds |->
                   IF requests[r].pc = "done" /\ requests[r].lookup = "miss" /\ requests[r].status = 200
                   THEN [requests[r] EXCEPT !.flushed = TRUE] ELSE requests[r]]
    /\ UNCHANGED <<aiCalls, now, nodeEnv, call, ret, extensionVars>>

\* node-cache's periodic check deletes the expired entries
CheckData ==
    /\ \E k \in Keys : cache[k] # NoEntry /\ ~Live(cache, k, now)
    /\ cache' = [k \in Keys |-> IF Live(cache, k, now) THEN cache[k] ELSE NoEntry]
    /\ UNCHANGED <<requests, hits, misses, aiCalls, now, nodeEnv, admin, call, ret, extensionVars>>

\* time passes
Tick ==
    /\ \E t \in Times : t > now /\ now' = t
    /\ UNCHANGED <<requests, cache, hits, misses, aiCalls, nodeEnv, admin, call, ret, extensionVars>>

-----------------------------------------------------------------------------

(* The extension before anything happened in it *)

RunIds == 1..MaxRuns

\* a call of analyzeCurrentPage that has not been made yet
IdleRun == [pc |-> "idle", from |-> "none", outcome |-> "none"]

\* new WebJageContentExtractor(): isAnalyzing and floatingWindow are the
\* object's; ready and timer are the page's (onPageReady ran, the auto-analyze
\* timeout is pending or fired); extractions and sent count the calls of
\* extractPageContent and the analyzeContent messages; runs are the calls of
\* analyzeCurrentPage
ScriptConstructed ==
    [isAnalyzing |-> FALSE, floatingWindow |-> "null", ready |-> FALSE,
     timer |-> "none", extractions |-> 0, sent |-> 0,
     runs |-> [i \in RunIds |-> IdleRun]]

MessageIds == 1..MaxMessages

\* the pages whose content is sent for analysis: url and contentHash
Pages ==
    {[url |-> "https://a.example/x", contentHash |-> "1a"],
     [url |-> "https://b.example/y", contentHash |-> "2b"]}

\* generateCacheKey(url, contentHash): btoa is injective, and so is the key
ExtensionCacheKey(url, contentHash) == <<"analysis", url, contentHash>>

StorageKeys == {ExtensionCacheKey(p.url, p.contentHash) : p \in Pages}

\* an analyzeContent message that has not arrived yet: pc, key, got, stamp and
\* body are the handler's (got is what chrome.storage.local.get came back
\* with, stamp the Date.now() of cacheAnalysis, body the parsed response);
\* lookup and fetch are history, responses counts the calls of sendResponse
\* and response is the last one
IdleMessage ==
    [pc |-> "idle", key |-> <<>>, got |-> <<>>, lookup |-> "none",
     fetch |-> "none", stamp |-> 0, body |-> <<>>, responses |-> 0,
     response |-> <<>>]

WorkerStarted == [m \in MessageIds |-> IdleMessage]

StorageEmpty == [k \in StorageKeys |-> <<>>]

\* chrome.runtime.onInstalled: the default settings
SyncInstalled == [autoAnalyze |-> TRUE, showFloatingWindow |-> TRUE]

UpdateIds == 1..MaxUpdates

\* the settings the popup has a toggle for
SettingKeys == {"autoAnalyze", "showFloatingWindow"}

\* the element setupEventListeners binds to the setting, which updateUI sets
ToggleOf(key) ==
    IF key = "autoAnalyze" THEN "autoAnalyzeToggle" ELSE "showWindowToggle"

\* the element updateSetting looks up to revert the change: `${key}Toggle`
ToggleId(key) ==
    IF key = "autoAnalyze" THEN "autoAnalyzeToggle" ELSE "showFloatingWindowToggle"

\* a call of updateSetting that has not been made yet: previous is what
\* this.settings[key] was when it was called, response what the background
\* answered
IdleUpdate ==
    [pc |-> "idle", key |-> "none", value |-> FALSE, previous |-> FALSE,
     response |-> <<>>, outcome |-> "none"]

\* new WebJagePopup() after init(): the settings, and the toggles of the
\* document by id, as updateUI set them
PopupOpened ==
    [settings |-> [autoAnalyze |-> TRUE, showFloatingWindow |-> TRUE],
     toggles  |-> [autoAnalyzeToggle |-> TRUE, showWindowToggle |-> TRUE],
     updates  |-> [u \in UpdateIds |-> IdleUpdate]]

ExtensionInit ==
    /\ script = ScriptConstructed
    /\ worker = WorkerStarted
    /\ storage = StorageEmpty
    /\ sync = SyncInstalled
    /\ popup = PopupOpened

NoCall == [fn |-> "none"]

Init ==
    /\ requests = [r \in RequestIds |-> IdleRequest]
    /\ cache = [k \in Keys |-> NoEntry]
    /\ hits = 0
    /\ misses = 0
    /\ aiCalls = 0
    /\ now = 0
    /\ nodeEnv \in {"development", "production"}
    /\ admin = [op |-> "none", status |-> 0]
    /\ call = NoCall
    /\ ret = <<>>
    /\ ExtensionInit

Next ==
    \/ \E r \in RequestIds, body \in Bodies : Analyze(r, body)
    \/ \E r \in RequestIds, aiAnalysis \in AiResults : AiResolve(r, aiAnalysis)
    \/ \E r \in RequestIds, error \in AiErrors : AiReject(r, error)
    \/ \E r \in RequestIds : Abandon(r)
    \/ Stats
    \/ CacheList
    \/ CacheFlush
    \/ CheckData
    \/ Tick

Spec == Init /\ [][Next]_vars

-----------------------------------------------------------------------------
(* The functions called on their own *)

ServerInit ==
    /\ requests = [r \in RequestIds |-> IdleRequest]
    /\ cache = [k \in Keys |-> NoEntry]
    /\ hits = 0
    /\ misses = 0
    /\ aiCalls = 0
    /\ now = 0
    /\ nodeEnv = "production"
    /\ admin = [op |-> "none", status |-> 0]

\* obj with the field f set to the value of opt, which is <<>> or <<value>>
WithField(obj, f, opt) ==
    IF opt = <<>> THEN obj ELSE Spread(obj, [x \in {f} |-> opt[1]])

Null == [js |-> "null"]

Number(n) == [js |-> "number", value |-> n]

UrlOptions ==
    {<<>>, <<Null>>, <<Number(0)>>, <<Number(7)>>, <<Str("", 0)>>,
     <<Str("https://a.example/", 18)>>}

TextLengths ==
    {0, 1, TOO_SHORT_CONTENT_LENGTH - 1, TOO_SHORT_CONTENT_LENGTH,
     TOO_SHORT_CONTENT_LENGTH + 1, TOO_LONG_CONTENT_LENGTH - 1,
     TOO_LONG_CONTENT_LENGTH, TOO_LONG_CONTENT_LENGTH + 1}

TextOptions ==
    {<<>>, <<Null>>, <<Number(60)>>, <<[js |-> "array", length |-> 60]>>}
        \cup {<<Str("text", n)>> : n \in TextLengths}

ContentOptions ==
    {<<>>, <<Null>>, <<Number(3)>>, <<Str("text", 60)>>,
     <<[js |-> "boolean", flag |-> TRUE]>>, <<[js |-> "array", length |-> 0]>>}
        \cup {<<WithField(EmptyObject, "text", t)>> : t \in TextOptions}

ValidationBodies ==
    {WithField(WithField(EmptyObject, "url", u), "content", c) :
        u \in UrlOptions, c \in ContentOptions}

InitValidate ==
    /\ ServerInit
    /\ ExtensionInit
    /\ call \in {[fn |-> "validateAnalysisRequest", body |-> b] : b \in ValidationBodies}
    /\ ret = <<>>

Validate ==
    /\ call.fn = "validateAnalysisRequest"
    /\ ret = <<>>
    /\ ret' = <<validateAnalysisRequest(call.body)>>
    /\ UNCHANGED <<serverVars, call, extensionVars>>

SpecValidate == InitValidate /\ [][Validate]_vars

\* a word character, two whitespace characters, a kept and a stripped one
Alphabet == {"a", " ", "\n", ".", "#"}

Strings == UNION {[1..n -> Alphabet] : n \in 0..MaxLen}

InitCleanText ==
    /\ ServerInit
    /\ ExtensionInit
    /\ call \in {[fn |-> "cleanText", text |-> x] : x \in Strings}
    /\ ret = <<>>

CleanText ==
    /\ call.fn = "cleanText"
    /\ ret = <<>>
    /\ ret' = <<cleanText(call.text)>>
    /\ UNCHANGED <<serverVars, call, extensionVars>>

SpecCleanText == InitCleanText /\ [][CleanText]_vars

\* content.text?.substring: a text that is neither undefined nor null and no
\* string has no substring method, and the call throws a TypeError
SubstringThrows(content) ==
    Has(content, "text") /\ content.text.js \notin {"string", "null"}

\* the outcome of generateCacheKey(input.url, input.content)
CallGenerateCacheKey(input) ==
    IF SubstringThrows(input.content)
    THEN [threw |-> TRUE, key |-> <<>>]
    ELSE [threw |-> FALSE, key |-> generateCacheKey(input.url, input.content)]

CacheKeyTexts == {<<>>, <<Null>>, <<Text1>>, <<Text2>>, <<TextShort>>, <<Number(60)>>}

CacheKeyWordCounts == {<<>>, <<0>>, <<300>>, <<301>>}

CacheKeyInputs ==
    {[url |-> u,
      content |-> WithField(WithField(EmptyObject, "text", t), "wordCount", w)] :
        u \in {Str("https://a.example/", 18), Str("https://b.example/", 18)},
        t \in CacheKeyTexts, w \in CacheKeyWordCounts}

InitCacheKey ==
    /\ ServerInit
    /\ ExtensionInit
    /\ call \in {[fn |-> "generateCacheKey", a |-> x, b |-> y] :
                    x \in CacheKeyInputs, y \in CacheKeyInputs}
    /\ ret = <<>>

\* generateCacheKey called on two inputs, one after the other
GenerateCacheKey ==
    /\ call.fn = "generateCacheKey"
    /\ ret = <<>>
    /\ ret' = <<[a |-> CallGenerateCacheKey(call.a), b |-> CallGenerateCacheKey(call.b)]>>
    /\ UNCHANGED <<serverVars, call, extensionVars>>

SpecCacheKey == InitCacheKey /\ [][GenerateCacheKey]_vars

\* the letters toLowerCase changes, and what it changes them to
UpperCase ==
    <<"A", "B", "C", "D", "E", "F", "G", "H", "I", "J", "K", "L", "M",
      "N", "O", "P", "Q", "R", "S", "T", "U", "V", "W", "X", "Y", "Z">>

LowerCase ==
    <<"a", "b", "c", "d", "e", "f", "g", "h", "i", "j", "k", "l", "m",
      "n", "o", "p", "q", "r", "s", "t", "u", "v", "w", "x", "y", "z">>

\* .toLowerCase()
toLowerCase(s) ==
    [i \in DOMAIN s |->
        IF \E j \in DOMAIN UpperCase : UpperCase[j] = s[i]
        THEN LowerCase[CHOOSE j \in DOMAIN UpperCase : UpperCase[j] = s[i]]
        ELSE s[i]]

\* .replace(/[^\w\s]/g, '')
StripNonWord(s) == SelectSeq(s, LAMBDA c : c \in WordChars \cup Whitespace)

\* .split(/[sep]+/): the pieces between the runs of separators, with an empty
\* piece before a leading run and after a trailing run; '' gives ['']
SplitRuns(s, sep) ==
    LET starts == {i \in DOMAIN s : s[i] \notin sep /\ (i = 1 \/ s[i - 1] \in sep)}
        end(i) == CHOOSE j \in i..Len(s) :
                      /\ \A k \in i..j : s[k] \notin sep
                      /\ (j = Len(s) \/ s[j + 1] \in sep)
        nth(k) == CHOOSE i \in starts : Cardinality({j \in starts : j <= i}) = k
        pieces == [k \in 1..Cardinality(starts) |-> SubSeq(s, nth(k), end(nth(k)))]
        lead   == IF s = <<>> \/ s[1] \in sep THEN <<<<>>>> ELSE <<>>
        trail  == IF s # <<>> /\ s[Len(s)] \in sep THEN <<<<>>>> ELSE <<>>
    IN  lead \o pieces \o trail

\* .split(/\s+/)
SplitWhitespace(s) == SplitRuns(s, Whitespace)

stopWords ==
    {<<"t", "h", "i", "s">>, <<"t", "h", "a", "t">>, <<"w", "i", "t", "h">>,
     <<"h", "a", "v", "e">>, <<"w", "i", "l", "l">>, <<"f", "r", "o", "m">>,
     <<"t", "h", "e", "y">>, <<"k", "n", "o", "w">>, <<"w", "a", "n", "t">>,
     <<"b", "e", "e", "n">>, <<"g", "o", "o", "d">>, <<"m", "u", "c", "h">>,
     <<"s", "o", "m", "e">>, <<"t", "i", "m", "e">>, <<"v", "e", "r", "y">>,
     <<"w", "h", "e", "n">>, <<"c", "o", "m", "e">>, <<"h", "e", "r", "e">>,
     <<"j", "u", "s", "t">>, <<"l", "i", "k", "e">>, <<"l", "o", "n", "g">>,
     <<"m", "a", "k", "e">>, <<"m", "a", "n", "y">>, <<"o", "v", "e", "r">>,
     <<"s", "u", "c", "h">>, <<"t", "a", "k", "e">>, <<"t", "h", "a", "n">>,
     <<"t", "h", "e", "m">>, <<"w", "e", "l", "l">>, <<"w", "e", "r", "e">>,
     <<"w", "h", "a", "t">>, <<"y", "o", "u", "r">>}

\* the lower-case names that a plain object inherits: wordCount[word] || 0 is
\* then no number, the count becomes a string and count > 1 is false
InheritedKeys ==
    {<<"c", "o", "n", "s", "t", "r", "u", "c", "t", "o", "r">>,
     <<"_", "_", "p", "r", "o", "t", "o", "_", "_">>}

\* the words of the text that are counted: lower-cased, stripped, longer than 3
KeyPhraseWords(text) ==
    SelectSeq(SplitWhitespace(StripNonWord(toLowerCase(text))),
              LAMBDA word : Len(word) > 3)

\* wordCount[word] after the forEach
WordFrequency(words, word) == Cardinality({i \in DOMAIN words : words[i] = word})

\* the keys in the order of their first occurrence, the keys of seen apart
RECURSIVE FirstOccurrences(_, _)
FirstOccurrences(words, seen) ==
    IF words = <<>> THEN <<>>
    ELSE IF Head(words) \in seen THEN FirstOccurrences(Tail(words), seen)
    ELSE <<Head(words)>> \o FirstOccurrences(Tail(words), seen \cup {Head(words)})

Digits == <<"0", "1", "2", "3", "4", "5", "6", "7", "8", "9">>

\* a key that is an array index: the canonical decimal form of an integer
\* below 2^32 - 1; the keys here are longer than 3, and digit strings of more
\* than 9 characters are not drawn
IsArrayIndex(word) ==
    /\ Len(word) <= 9
    /\ \A i \in DOMAIN word : \E d \in DOMAIN Digits : Digits[d] = word[i]
    /\ word[1] # "0"

\* the integer a string of digits denotes
RECURSIVE NumericValue(_)
NumericValue(word) ==
    IF word = <<>> THEN 0
    ELSE 10 * NumericValue(SubSeq(word, 1, Len(word) - 1))
         + (CHOOSE d \in DOMAIN Digits : Digits[d] = word[Len(word)]) - 1

\* the keys of a set of array indices in ascending numeric order
RECURSIVE AscendingIndices(_)
AscendingIndices(keys) ==
    IF keys = {} THEN <<>>
    ELSE LET least == CHOOSE k \in keys :
                          \A other \in keys : NumericValue(k) <= NumericValue(other)
         IN  <<least>> \o AscendingIndices(keys \ {least})

\* Object.entries(wordCount): the own keys of an ordinary object come with the
\* array indices first, in ascending numeric order, and the other strings
\* after them in the order of their insertion, which is the order of their
\* first occurrence; the keys of InheritedKeys apart
ObjectEntries(words) ==
    LET keys == FirstOccurrences(words, InheritedKeys)
    IN  AscendingIndices({keys[i] : i \in {j \in DOMAIN keys : IsArrayIndex(keys[j])}})
        \o SelectSeq(keys, LAMBDA word : ~IsArrayIndex(word))

\* entry inserted into a list sorted by descending count, behind its equals
RECURSIVE InsertByCount(_, _, _)
InsertByCount(sorted, word, words) ==
    IF sorted = <<>> THEN <<word>>
    ELSE IF WordFrequency(words, Head(sorted)) >= WordFrequency(words, word)
    THEN <<Head(sorted)>> \o InsertByCount(Tail(sorted), word, words)
    ELSE <<word>> \o sorted

\* .sort((a, b) => b[1] - a[1]), a stable sort
RECURSIVE SortByCount(_, _)
SortByCount(entries, words) ==
    IF entries = <<>> THEN <<>>
    ELSE InsertByCount(SortByCount(SubSeq(entries, 1, Len(entries) - 1), words),
                       entries[Len(entries)], words)

\* the key phrases without the cut to ten
extractKeyPhrasesUncut(text) ==
    IF text = <<>> THEN <<>>
    ELSE LET words == KeyPhraseWords(text)
             kept  == SelectSeq(ObjectEntries(words),
                          LAMBDA word : WordFrequency(words, word) > 1 /\
                                        word \notin stopWords)
         IN  SortByCount(kept, words)

\* key phrases from a table that lists every key in the order of insertion
extractKeyPhrasesInsertionOrder(text) ==
    IF text = <<>> THEN <<>>
    ELSE LET words  == KeyPhraseWords(text)
             kept   == SelectSeq(FirstOccurrences(words, InheritedKeys),
                           LAMBDA word : WordFrequency(words, word) > 1 /\
                                         word \notin stopWords)
             sorted == SortByCount(kept, words)
         IN  SubSeq(sorted, 1, Min(10, Len(sorted)))

extractKeyPhrases(text) ==
    IF text = <<>> THEN <<>>
    ELSE LET words  == KeyPhraseWords(text)
             kept   == SelectSeq(ObjectEntries(words),
                           LAMBDA word : WordFrequency(words, word) > 1 /\
                                         word \notin stopWords)
             sorted == SortByCount(kept, words)
         IN  SubSeq(sorted, 1, Min(10, Len(sorted)))

\* the i-th of the distinct five-letter words worda, wordb, ...
FillerWord(i) == <<"w", "o", "r", "d", LowerCase[i]>>

\* the words joined by single spaces
RECURSIVE Join(_)
Join(ws) ==
    IF ws = <<>> THEN <<>>
    ELSE IF Len(ws) = 1 THEN ws[1]
    ELSE ws[1] \o <<" ">> \o Join(Tail(ws))

\* n distinct words, the odd ones twice and the even ones three times
RECURSIVE Fillers(_)
Fillers(n) ==
    IF n = 0 THEN <<>>
    ELSE Fillers(n - 1) \o
         (IF n % 2 = 1 THEN <<FillerWord(n), FillerWord(n)>>
          ELSE <<FillerWord(n), FillerWord(n), FillerWord(n)>>)

\* a stop word in two cases, a short word, a single word, one word written
\* with and without punctuation, in two cases, and an inherited key, each
\* twice; a word followed by two years, the later year first, each twice; a
\* number written with a leading zero, three times
ExtraWords ==
    <<<<<<"T", "h", "i", "s">>, <<"t", "h", "i", "s">>>>,
      <<<<"c", "a", "t">>, <<"c", "a", "t">>>>,
      <<<<"o", "n", "c", "e", "s">>>>,
      <<<<"d", "o", "n", "'", "t", "s">>, <<"d", "o", "n", "t", "s">>>>,
      <<<<"R", "u", "s", "t">>, <<"r", "u", "s", "t", ".">>>>,
      <<<<"c", "o", "n", "s", "t", "r", "u", "c", "t", "o", "r">>,
        <<"c", "o", "n", "s", "t", "r", "u", "c", "t", "o", "r">>>>,
      <<<<"z", "e", "t", "a">>, <<"2", "0", "2", "4">>, <<"1", "9", "9", "9">>,
        <<"z", "e", "t", "a">>, <<"2", "0", "2", "4">>, <<"1", "9", "9", "9">>>>,
      <<<<"0", "1", "2", "3">>, <<"0", "1", "2", "3">>, <<"0", "1", "2", "3">>>>>>

\* the words of the chosen extras, in order
RECURSIVE Extras(_, _)
Extras(chosen, i) ==
    IF i > Len(ExtraWords) THEN <<>>
    ELSE (IF i \in chosen THEN ExtraWords[i] ELSE <<>>) \o Extras(chosen, i + 1)

KeyPhraseTexts ==
    {Join(Extras(chosen, 1) \o Fillers(n)) :
        chosen \in SUBSET (1..Len(ExtraWords)), n \in 0..MaxDistinct}
    \cup {<<" ">> \o Join(Fillers(n)) \o <<"\n">> : n \in 0..MaxDistinct}

InitKeyPhrases ==
    /\ ServerInit
    /\ ExtensionInit
    /\ call \in {[fn |-> "extractKeyPhrases", text |-> x] : x \in KeyPhraseTexts}
    /\ ret = <<>>

ExtractKeyPhrases ==
    /\ call.fn = "extractKeyPhrases"
    /\ ret = <<>>
    /\ ret' = <<extractKeyPhrases(call.text)>>
    /\ UNCHANGED <<serverVars, call, extensionVars>>

SpecKeyPhrases == InitKeyPhrases /\ [][ExtractKeyPhrases]_vars

\* the word counts on both sides of every threshold, and the extremes
ConfidenceWordCounts ==
    {<<>>, <<0>>, <<49>>, <<50>>, <<200>>, <<201>>, <<500>>, <<501>>,
     <<10000>>, <<10001>>, <<1000000>>}

\* a metadata object with n keys
MetadataOfSize(n) == [k \in {"k" \o ToString(i) : i \in 1..n} |-> Str("v", 1)]

ConfidenceMetadata == {<<>>} \cup {<<MetadataOfSize(n)>> : n \in 0..MaxKeys}

\* an enhanced analysis as far as the score reads it
ConfidenceAnalyses ==
    {EmptyObject} \cup
    {[technicalMetrics |-> [imageCount |-> i, linkCount |-> l]] :
        i \in 0..MaxItems, l \in 0..MaxItems}

InitConfidence ==
    /\ ServerInit
    /\ ExtensionInit
    /\ call \in {[fn |-> "calculateConfidenceScore", analysis |-> a,
                  originalData |->
                      WithField([content |-> WithField(EmptyObject, "wordCount", w)],
                                "metadata", md)] :
                    a \in ConfidenceAnalyses, w \in ConfidenceWordCounts,
                    md \in ConfidenceMetadata}
    /\ ret = <<>>

CalculateConfidenceScore ==
    /\ call.fn = "calculateConfidenceScore"
    /\ ret = <<>>
    /\ ret' = <<calculateConfidenceScore(call.analysis, call.originalData)>>
    /\ UNCHANGED <<serverVars, call, extensionVars>>

SpecConfidence == InitConfidence /\ [][CalculateConfidenceScore]_vars

\* the numbers of minutes around which the format changes
ReadingMinutes == {1, 2, 59, 60, 61, 90, 119, 120, MaxReadingMinutes - 1}

\* no words, and the word counts at and next to a full number of minutes
ReadingWordCounts ==
    {-1, 0, 1} \cup {225 * n + d : n \in ReadingMinutes, d \in {-1, 0, 1}}

InitReadingTime ==
    /\ ServerInit
    /\ ExtensionInit
    /\ call \in {[fn |-> "calculateReadingTime", a |-> x, b |-> y] :
                    x \in ReadingWordCounts, y \in ReadingWordCounts}
    /\ ret = <<>>

\* calculateReadingTime called on two word counts, one after the other
CalculateReadingTime ==
    /\ call.fn = "calculateReadingTime"
    /\ ret = <<>>
    /\ ret' = <<[a |-> calculateReadingTime(call.a), b |-> calculateReadingTime(call.b)]>>
    /\ UNCHANGED <<serverVars, call, extensionVars>>

SpecReadingTime == InitReadingTime /\ [][CalculateReadingTime]_vars

\* fields an AI result may carry besides its summary: a reading time, fields
\* named like the ones attached later, and one the backend does not know
AiOptionalFields ==
    [readingTime      |-> "9 min read",
     cached           |-> TRUE,
     confidenceScore  |-> 999,
     technicalMetrics |-> [imageCount |-> 7, linkCount |-> 7],
     keyTakeaways     |-> "k"]

EnhanceAiAnalyses ==
    {Spread([summary |-> "s"], [f \in fields |-> AiOptionalFields[f]]) :
        fields \in SUBSET DOMAIN AiOptionalFields}

\* requests without a word count, with the word count 0 and with others
EnhanceOriginals ==
    {[b EXCEPT !.content = WithField(@, "wordCount", w)] :
        b \in {Body2, Body3}, w \in {<<>>, <<0>>, <<450>>}}

InitEnhance ==
    /\ ServerInit
    /\ ExtensionInit
    /\ call \in {[fn |-> "enhanceAnalysis", aiAnalysis |-> a, originalData |-> o] :
                    a \in EnhanceAiAnalyses, o \in EnhanceOriginals}
    /\ ret = <<>>

\* enhanceAnalysis writes to its copy of aiAnalysis only: the arguments, held
\* in call, stay as they are
EnhanceAnalysis ==
    /\ call.fn = "enhanceAnalysis"
    /\ ret = <<>>
    /\ ret' = <<enhanceAnalysis(call.aiAnalysis, call.originalData, now)>>
    /\ UNCHANGED <<serverVars, call, extensionVars>>

SpecEnhance == InitEnhance /\ [][EnhanceAnalysis]_vars

\* a string that parses to the time t, in seconds
DateString(t) == [js |-> "string", id |-> "date", length |-> 20, date |-> <<t>>]

\* a string that does not parse as a date
NotADate == [js |-> "string", id |-> "yesterday", length |-> 9, date |-> <<>>]

\* the time of the call: MaxDays days after time 0
FreshnessNow == MaxDays * SecondsPerDay

\* the ages at which the freshness changes, a day more, and a date to come
FreshnessAges == {-1, 0, 7, 8, 30, 31, 90, 91, 365, 366, MaxDays}

\* publish dates of these ages, to the second, a second younger and older
FreshnessDates ==
    {DateString(FreshnessNow - a * SecondsPerDay - d) :
        a \in FreshnessAges, d \in {-1, 0, 1}}

\* the first key: absent, falsy, not a date, an object, a number, true, a date
PublishedTimeOptions ==
    {<<>>, <<Str("", 0)>>, <<Null>>, <<NotADate>>, <<[year |-> Number(2020)]>>,
     <<Number(FreshnessNow - 31 * SecondsPerDay + 1)>>,
     <<[js |-> "boolean", flag |-> TRUE]>>}
    \cup {<<v>> : v \in FreshnessDates}

LaterDateOptions == {<<>>, <<NotADate>>, <<DateString(FreshnessNow)>>}

FreshnessMetadata ==
    {<<>>, <<Null>>} \cup
    {<<WithField(WithField(WithField(EmptyObject, "article:published_time", p),
                           "datePublished", q), "date", d)>> :
        p \in PublishedTimeOptions, q \in LaterDateOptions, d \in LaterDateOptions}

InitFreshness ==
    /\ ServerInit
    /\ ExtensionInit
    /\ call \in {[fn |-> "analyzeContentFreshness",
                  data |-> WithField(EmptyObject, "metadata", md),
                  now |-> FreshnessNow] : md \in FreshnessMetadata}
    /\ ret = <<>>

AnalyzeContentFreshness ==
    /\ call.fn = "analyzeContentFreshness"
    /\ ret = <<>>
    /\ ret' = <<analyzeContentFreshness(call.data, call.now)>>
    /\ UNCHANGED <<serverVars, call, extensionVars>>

SpecFreshness == InitFreshness /\ [][AnalyzeContentFreshness]_vars

\* text.split('\n\n'): the pieces between the blank-line separators, found
\* from the left; piece is the part of the current piece read so far
RECURSIVE SplitBlankLines(_, _)
SplitBlankLines(s, piece) ==
    IF s = <<>> THEN <<piece>>
    ELSE IF Len(s) >= 2 /\ s[1] = "\n" /\ s[2] = "\n"
    THEN <<piece>> \o SplitBlankLines(SubSeq(s, 3, Len(s)), <<>>)
    ELSE SplitBlankLines(Tail(s), Append(piece, Head(s)))

\* .filter(p => p.trim().length > 0).length
NonBlankCount(pieces) ==
    Cardinality({i \in DOMAIN pieces : Trim(pieces[i]) # <<>>})

SentenceEnds == {".", "!", "?"}

\* Math.round(a / b) for a >= 0 and b > 0
RoundDiv(a, b) == (2 * a + b) \div (2 * b)

\* ^ under the flag m: the start of the text and the place after a line end
LineStarts(s) == {i \in DOMAIN s : i = 1 \/ s[i - 1] \in {"\n", "\r"}}

\* /^(H[1-6]:|#)/m.test(text)
HasHeadings(s) ==
    \E i \in LineStarts(s) :
        \/ s[i] = "#"
        \/ /\ i + 2 <= Len(s)
           /\ s[i] = "H"
           /\ s[i + 1] \in {"1", "2", "3", "4", "5", "6"}
           /\ s[i + 2] = ":"

\* the characters of the class of the list pattern that the strings of the
\* model can hold
ListMarkers == {"-", "*"}

\* /^[...\-\*]\s/m.test(text)
HasList(s) ==
    \E i \in LineStarts(s) :
        i + 1 <= Len(s) /\ s[i] \in ListMarkers /\ s[i + 1] \in Whitespace

StructureDefaults ==
    [paragraphs |-> 0, sentences |-> 0, avgSentenceLength |-> 0,
     hasHeadings |-> FALSE, hasList |-> FALSE]

\* the average without the test for sentences.length > 0: the words are
\* divided by at least one
analyzeTextStructureUnguarded(text) ==
    IF text = <<>> \/ text[1] = <<>> THEN StructureDefaults
    ELSE LET s         == text[1]
             sentences == NonBlankCount(SplitRuns(s, SentenceEnds))
         IN  [paragraphs        |-> NonBlankCount(SplitBlankLines(s, <<>>)),
              sentences         |-> sentences,
              avgSentenceLength |->
                  RoundDiv(Len(SplitWhitespace(s)), Max(sentences, 1)),
              hasHeadings       |-> HasHeadings(s),
              hasList           |-> HasList(s)]

\* text is <<>> for an argument that is undefined and <<s>> for the string s
analyzeTextStructure(text) ==
    IF text = <<>> \/ text[1] = <<>> THEN StructureDefaults
    ELSE LET s         == text[1]
             sentences == NonBlankCount(SplitRuns(s, SentenceEnds))
         IN  [paragraphs        |-> NonBlankCount(SplitBlankLines(s, <<>>)),
              sentences         |-> sentences,
              avgSentenceLength |->
                  IF sentences > 0
                  THEN RoundDiv(Len(SplitWhitespace(s)), sentences)
                  ELSE 0,
              hasHeadings       |-> HasHeadings(s),
              hasList           |-> HasList(s)]

\* a word character that starts a heading with a digit and a colon, two
\* whitespace characters, a sentence end, a heading and a list marker
StructureAlphabet == {"H", "1", ":", " ", "\n", ".", "#", "-"}

StructureTexts == UNION {[1..n -> StructureAlphabet] : n \in 0..MaxLen}

InitTextStructure ==
    /\ ServerInit
    /\ ExtensionInit
    /\ call \in {[fn |-> "analyzeTextStructure"]}
                \cup {[fn |-> "analyzeTextStructure", text |-> x] :
                         x \in StructureTexts}
    /\ ret = <<>>

AnalyzeTextStructure ==
    /\ call.fn = "analyzeTextStructure"
    /\ ret = <<>>
    /\ ret' = <<analyzeTextStructure(IF Has(call, "text")
                                     THEN <<call.text>> ELSE <<>>)>>
    /\ UNCHANGED <<serverVars, call, extensionVars>>

SpecTextStructure == InitTextStructure /\ [][AnalyzeTextStructure]_vars

\* a preprocessing that analyzes the structure of the text as it came
preprocessContentRawStructure(text) ==
    LET cleaned == cleanText(text)
    IN  [text       |-> cleaned,
         keyPhrases |-> extractKeyPhrases(cleaned),
         structure  |-> analyzeTextStructure(<<text>>)]

\* preprocessContent, character by character: what it makes of content.text,
\* the fields text, keyPhrases and structure of the ProcessedContent
preprocessContentText(text) ==
    LET cleaned == cleanText(text)
    IN  [text       |-> cleaned,
         keyPhrases |-> extractKeyPhrases(cleaned),
         structure  |-> analyzeTextStructure(<<cleaned>>)]

InitPreprocess ==
    /\ ServerInit
    /\ ExtensionInit
    /\ call \in {[fn |-> "preprocessContent", text |-> x] : x \in StructureTexts}
    /\ ret = <<>>

PreprocessContent ==
    /\ call.fn = "preprocessContent"
    /\ ret = <<>>
    /\ ret' = <<preprocessContentText(call.text)>>
    /\ UNCHANGED <<serverVars, call, extensionVars>>

SpecPreprocess == InitPreprocess /\ [][PreprocessContent]_vars

-----------------------------------------------------------------------------
(* POST /analyze over requests of every shape that passes validation *)

HeuristicTitles == {<<>>, <<Number(5)>>, <<Str("A", 40)>>}

HeuristicWordCounts == {<<>>, <<0>>, <<300>>}

\* no images, none in the list, with and without alt text, and a list that
\* holds a null
HeuristicImages ==
    {<<>>, <<<<>>>>, <<<<[src |-> "i.png", alt |-> "logo"]>>>>,
     <<<<[src |-> "i.png"], [src |-> "j.png", alt |-> ""]>>>>,
     <<<<[src |-> "i.png", alt |-> "logo"], Null>>>>}

\* no links, a descriptive one, one without text, one whose text is a list,
\* and a list that holds a null
HeuristicLinks ==
    {<<>>,
     <<<<[url |-> "/x", text |-> [lower |-> "the annual report", length |-> 17]]>>>>,
     <<<<[url |-> "/x"]>>>>,
     <<<<[url |-> "/x", text |-> [js |-> "array", length |-> 6]]>>>>,
     <<<<Null>>>>}

\* metadata absent, null, empty, and with a publish date and a description
\* that are strings or not
HeuristicMetadata ==
    {<<>>, <<Null>>, <<EmptyObject>>} \cup
    {<<WithField([date |-> d], "description", desc)>> :
        d \in {NotADate, DateString(0), Number(5), [year |-> Number(2020)]},
        desc \in {<<>>, <<Number(5)>>, <<Str("d", 130)>>, <<Str("", 0)>>}}

HeuristicBodies ==
    {WithField(WithField(
        [url |-> Str("https://a.example/", 18),
         content |-> WithField(WithField(WithField([text |-> Text1],
                         "wordCount", w), "images", i), "links", l)],
        "title", t), "metadata", md) :
        t \in HeuristicTitles, w \in HeuristicWordCounts, i \in HeuristicImages,
        l \in HeuristicLinks, md \in HeuristicMetadata}

InitHeuristics ==
    /\ requests = [r \in RequestIds |-> IdleRequest]
    /\ cache = [k \in {generateCacheKey(b.url, b.content) : b \in HeuristicBodies}
                   |-> NoEntry]
    /\ hits = 0
    /\ misses = 0
    /\ aiCalls = 0
    /\ now = 0
    /\ nodeEnv = "production"
    /\ admin = [op |-> "none", status |-> 0]
    /\ call = NoCall
    /\ ret = <<>>
    /\ ExtensionInit

\* one request, from its arrival to its answer
NextHeuristics ==
    \/ \E body \in HeuristicBodies : Analyze(1, body)
    \/ \E aiAnalysis \in AiResults : AiResolve(1, aiAnalysis)
    \/ \E error \in AiErrors : AiReject(1, error)

SpecHeuristics == InitHeuristics /\ [][NextHeuristics]_vars

-----------------------------------------------------------------------------
(* extension/content/content.js: the content script *)

\* onPageReady: the auto-analyze timeout is set unless the page is skipped or
\* the setting is off
OnPageReady(autoAnalyze, skip) ==
    /\ ~script.ready
    /\ script' = [script EXCEPT !.ready = TRUE,
                                !.timer = IF ~skip /\ autoAnalyze
                                          THEN "pending" ELSE "none"]
    /\ UNCHANGED <<serverVars, call, ret, worker, storage, sync, popup>>

\* what throws before the message is sent, if anything does
SyncFaults == {"none", "extractPageContent", "showFloatingWindow"}

\* analyzeCurrentPage without the test of isAnalyzing
analyzeCurrentPageUnguarded(s, i, from, fault) ==
    IF fault = "extractPageContent"
    THEN [s EXCEPT !.extractions = @ + 1, !.floatingWindow = "error",
                   !.isAnalyzing = FALSE,
                   !.runs[i] = [pc |-> "done", from |-> from, outcome |-> fault]]
    ELSE IF fault = "showFloatingWindow"
    THEN [s EXCEPT !.extractions = @ + 1, !.floatingWindow = "error",
                   !.isAnalyzing = FALSE,
                   !.runs[i] = [pc |-> "done", from |-> from, outcome |-> fault]]
    ELSE [s EXCEPT !.extractions = @ + 1, !.floatingWindow = "loading",
                   !.sent = @ + 1, !.isAnalyzing = TRUE,
                   !.runs[i] = [pc |-> "awaiting", from |-> from, outcome |-> "none"]]

\* analyzeCurrentPage up to its await, as the i-th call of it: it returns at
\* once while isAnalyzing; else it sets isAnalyzing, extracts the content,
\* shows the loading window and sends the analyzeContent message; an exception
\* on the way is caught, the error is shown and finally resets isAnalyzing
analyzeCurrentPage(s, i, from, fault) ==
    IF s.isAnalyzing
    THEN [s EXCEPT !.runs[i] = [pc |-> "skipped", from |-> from, outcome |-> "none"]]
    ELSE IF fault = "extractPageContent"
    THEN [s EXCEPT !.extractions = @ + 1, !.floatingWindow = "error",
                   !.isAnalyzing = FALSE,
                   !.runs[i] = [pc |-> "done", from |-> from, outcome |-> fault]]
    ELSE IF fault = "showFloatingWindow"
    THEN [s EXCEPT !.extractions = @ + 1, !.floatingWindow = "error",
                   !.isAnalyzing = FALSE,
                   !.runs[i] = [pc |-> "done", from |-> from, outcome |-> fault]]
    ELSE [s EXCEPT !.extractions = @ + 1, !.floatingWindow = "loading",
                   !.sent = @ + 1, !.isAnalyzing = TRUE,
                   !.runs[i] = [pc |-> "awaiting", from |-> from, outcome |-> "none"]]

\* the next call of analyzeCurrentPage is the i-th
NextRun(i) ==
    /\ script.runs[i].pc = "idle"
    /\ \A j \in 1..(i - 1) : script.runs[j].pc # "idle"

\* setTimeout(() => this.analyzeCurrentPage(), 2000) fires
TimerFires(i, fault) ==
    /\ script.timer = "pending"
    /\ NextRun(i)
    /\ script' = [analyzeCurrentPage(script, i, "timer", fault)
                     EXCEPT !.timer = "fired"]
    /\ UNCHANGED <<serverVars, call, ret, worker, storage, sync, popup>>

\* the popup's message 'analyzeCurrentPage' arrives: the listener calls
\* analyzeCurrentPage without awaiting it and answers success at once
PopupAsks(i, fault) ==
    /\ NextRun(i)
    /\ script' = analyzeCurrentPage(script, i, "popup", fault)
    /\ UNCHANGED <<serverVars, call, ret, worker, storage, sync, popup>>

\* how the await of chrome.runtime.sendMessage ends: a response with success,
\* a response without, a rejection, and a response with success whose display
\* throws
MessageOutcomes == {"success", "failure", "rejected", "displayThrows"}

\* the await ends: the result or the error is shown, by the try block or by
\* the catch block, and finally resets isAnalyzing
MessageSettles(i, outcome) ==
    /\ script.runs[i].pc = "awaiting"
    /\ script' = [script EXCEPT
           !.floatingWindow = IF outcome = "success" THEN "result" ELSE "error",
           !.isAnalyzing = FALSE,
           !.runs[i] = [@ EXCEPT !.pc = "done", !.outcome = outcome]]
    /\ UNCHANGED <<serverVars, call, ret, worker, storage, sync, popup>>

InitContentScript ==
    /\ ServerInit
    /\ call = NoCall
    /\ ret = <<>>
    /\ ExtensionInit

NextContentScript ==
    \/ \E autoAnalyze \in BOOLEAN, skip \in BOOLEAN : OnPageReady(autoAnalyze, skip)
    \/ \E i \in RunIds, fault \in SyncFaults : TimerFires(i, fault)
    \/ \E i \in RunIds, fault \in SyncFaults : PopupAsks(i, fault)
    \/ \E i \in RunIds, outcome \in MessageOutcomes : MessageSettles(i, outcome)

SpecContentScript == InitContentScript /\ [][NextContentScript]_vars

-----------------------------------------------------------------------------
(* The background service worker: handleContentAnalysis and its cache *)

\* 24 * 60 * 60 * 1000 milliseconds, in seconds
maxAge == 24 * 60 * 60

\* what the backend answers to a request that succeeds, and to one that fails
BackendAnalysis(key) == [summary |-> key[2]]

BackendError == [error |-> "Analysis Failed"]

\* the listener's case 'analyzeContent': handleContentAnalysis starts; with a
\* message that carries no data, contentData.url throws inside try and the
\* catch block answers; else the key is made and chrome.storage.local.get is
\* called
Receive(m, data) ==
    /\ worker[m].pc = "idle"
    /\ \A j \in 1..(m - 1) : worker[j].pc # "idle"
    /\ worker' = [worker EXCEPT ![m] =
           IF data = <<>>
           THEN [@ EXCEPT !.pc = "done", !.responses = @ + 1,
                          !.response = <<[success |-> FALSE, error |-> "TypeError"]>>]
           ELSE [@ EXCEPT !.pc = "getting",
                          !.key = ExtensionCacheKey(data[1].url, data[1].contentHash)]]
    /\ UNCHANGED <<serverVars, call, ret, script, storage, sync, popup>>

\* chrome.storage.local.get settles: with the item of the key, or rejected,
\* which getCachedAnalysis catches and turns into null
StorageGetSettles(m, ok) ==
    /\ worker[m].pc = "getting"
    /\ worker' = [worker EXCEPT ![m] =
           [@ EXCEPT !.pc = "got",
                     !.got = IF ok THEN storage[worker[m].key] ELSE <<>>,
                     !.lookup = IF ok THEN "read" ELSE "rejected"]]
    /\ UNCHANGED <<serverVars, call, ret, script, storage, sync, popup>>

\* getCachedAnalysis: the data of an item younger than maxAge, as <<data>>,
\* or <<>> for null
CachedData(got, t) ==
    IF got # <<>> /\ got[1].timestamp # 0 /\ t - got[1].timestamp < maxAge
    THEN <<got[1].data>> ELSE <<>>

\* the rest of getCachedAnalysis and what handleContentAnalysis does with its
\* result: a cached result is answered with cached: true; an item that is too
\* old is removed; without a cached result the backend is fetched
AfterGet(m) ==
    /\ worker[m].pc = "got"
    /\ LET cachedResult == CachedData(worker[m].got, now)
           expired      == /\ worker[m].got # <<>>
                           /\ worker[m].got[1].timestamp # 0
                           /\ cachedResult = <<>>
       IN  /\ worker' = [worker EXCEPT ![m] =
                  IF cachedResult # <<>>
                  THEN [@ EXCEPT !.pc = "done", !.lookup = "hit",
                                 !.responses = @ + 1,
                                 !.response = <<[success |-> TRUE,
                                                 data |-> cachedResult[1],
                                                 cached |-> TRUE]>>]
                  ELSE [@ EXCEPT !.pc = "fetching",
                                 !.lookup = IF @ = "rejected" THEN @ ELSE "miss"]]
           /\ storage' = IF expired
                         THEN [storage EXCEPT ![worker[m].key] = <<>>]
                         ELSE storage
    /\ UNCHANGED <<serverVars, call, ret, script, sync, popup>>

\* how the fetch ends: a 2xx response with a body that parses, a response that
\* is not ok, a rejected fetch, a 2xx response whose body does not parse
FetchOutcomes == {"ok", "notOk", "networkError", "badJson"}

\* a handler whose catch block only logs
FetchSettlesSilently(m, outcome) ==
    /\ worker[m].pc = "fetching"
    /\ worker' = [worker EXCEPT ![m] =
           IF outcome = "ok"
           THEN [@ EXCEPT !.pc = "setting", !.fetch = outcome, !.stamp = now,
                          !.body = <<BackendAnalysis(worker[m].key)>>]
           ELSE [@ EXCEPT !.pc = "done", !.fetch = outcome]]
    /\ UNCHANGED <<serverVars, call, ret, script, storage, sync, popup>>

\* a handler that parses and caches the body before it looks at response.ok
FetchSettlesCachingFirst(m, outcome) ==
    /\ worker[m].pc = "fetching"
    /\ worker' = [worker EXCEPT ![m] =
           IF outcome \in {"ok", "notOk"}
           THEN [@ EXCEPT !.pc = "setting", !.fetch = outcome, !.stamp = now,
                          !.body = IF outcome = "ok"
                                   THEN <<BackendAnalysis(worker[m].key)>>
                                   ELSE <<BackendError>>]
           ELSE [@ EXCEPT !.pc = "done", !.fetch = outcome,
                          !.responses = @ + 1,
                          !.response = <<[success |-> FALSE, error |-> outcome]>>]]
    /\ UNCHANGED <<serverVars, call, ret, script, storage, sync, popup>>

\* the fetch ends: after a 2xx response whose body parsed, cacheAnalysis is
\* called, which takes Date.now() and calls chrome.storage.local.set; every
\* other end throws or rejects inside try, and the catch block answers
FetchSettles(m, outcome) ==
    /\ worker[m].pc = "fetching"
    /\ worker' = [worker EXCEPT ![m] =
           IF outcome = "ok"
           THEN [@ EXCEPT !.pc = "setting", !.fetch = outcome, !.stamp = now,
                          !.body = <<BackendAnalysis(worker[m].key)>>]
           ELSE [@ EXCEPT !.pc = "done", !.fetch = outcome,
                          !.responses = @ + 1,
                          !.response = <<[success |-> FALSE, error |-> outcome]>>]]
    /\ UNCHANGED <<serverVars, call, ret, script, storage, sync, popup>>

\* chrome.storage.local.set settles: the item is stored, or the rejection is
\* caught by cacheAnalysis; the handler answers the analysis either way
StorageSetSettles(m, ok) ==
    /\ worker[m].pc = "setting"
    /\ storage' = IF ok
                  THEN [storage EXCEPT ![worker[m].key] =
                           <<[data |-> worker[m].body[1],
                              timestamp |-> worker[m].stamp]>>]
                  ELSE storage
    /\ worker' = [worker EXCEPT ![m] =
           [@ EXCEPT !.pc = "done", !.responses = @ + 1,
                     !.response = <<[success |-> TRUE,
                                     data |-> worker[m].body[1],
                                     cached |-> FALSE]>>]]
    /\ UNCHANGED <<serverVars, call, ret, script, sync, popup>>

\* the alarm cleanupCache: the items older than maxAge are removed
CleanupExpiredCache ==
    /\ \E k \in StorageKeys : storage[k] # <<>> /\ now - storage[k][1].timestamp > maxAge
    /\ storage' = [k \in StorageKeys |->
           IF storage[k] # <<>> /\ now - storage[k][1].timestamp > maxAge
           THEN <<>> ELSE storage[k]]
    /\ UNCHANGED <<serverVars, call, ret, script, worker, sync, popup>>

\* the times of the worker's clock: the installation, and a second before,
\* at and after every full maxAge
WorkerTimes == {1} \cup {1 + maxAge + d : d \in {-1, 0, 1}}

WorkerTick ==
    /\ \E t \in WorkerTimes : t > now /\ now' = t
    /\ UNCHANGED <<requests, cache, hits, misses, aiCalls, nodeEnv, admin,
                   call, ret, extensionVars>>

InitWorker ==
    /\ requests = [r \in RequestIds |-> IdleRequest]
    /\ cache = [k \in Keys |-> NoEntry]
    /\ hits = 0
    /\ misses = 0
    /\ aiCalls = 0
    /\ now = 1
    /\ nodeEnv = "production"
    /\ admin = [op |-> "none", status |-> 0]
    /\ call = NoCall
    /\ ret = <<>>
    /\ ExtensionInit

\* a step of the handler of message m that its awaits lead to
HandlerStep(m) ==
    \/ \E ok \in BOOLEAN : StorageGetSettles(m, ok)
    \/ AfterGet(m)
    \/ \E outcome \in FetchOutcomes : FetchSettles(m, outcome)
    \/ \E ok \in BOOLEAN : StorageSetSettles(m, ok)

NextWorker ==
    \/ \E m \in MessageIds, data \in {<<>>} \cup {<<p>> : p \in Pages} : Receive(m, data)
    \/ \E m \in MessageIds : HandlerStep(m)
    \/ CleanupExpiredCache
    \/ WorkerTick

SpecWorker == InitWorker /\ [][NextWorker]_vars

\* every promise the handler awaits settles: chrome.storage answers, and the
\* fetch ends with a response or an error
FairSpecWorker ==
    SpecWorker /\ \A m \in MessageIds : WF_vars(HandlerStep(m))

-----------------------------------------------------------------------------
(* extension/popup/popup.js: the settings toggles of the popup *)

\* the documents the popup may run in: popup.js names the two toggles it
\* binds; whether the document also has an element showFloatingWindowToggle,
\* and what it shows, popup.js does not tell
PopupDocuments ==
    {PopupOpened} \cup
    {[PopupOpened EXCEPT !.toggles =
         [id \in {"autoAnalyzeToggle", "showWindowToggle", "showFloatingWindowToggle"} |->
             IF id = "showFloatingWindowToggle" THEN c ELSE TRUE]] : c \in BOOLEAN}

\* the user clicks the toggle of a setting: the element changes, and its
\* change listener calls updateSetting(key, e.target.checked), which assigns
\* this.settings[key] and sends the updateSettings message
UserToggles(u, key) ==
    /\ popup.updates[u].pc = "idle"
    /\ \A j \in 1..(u - 1) : popup.updates[j].pc # "idle"
    /\ LET value == ~popup.toggles[ToggleOf(key)] IN
       popup' = [popup EXCEPT
                    !.toggles[ToggleOf(key)] = value,
                    !.settings[key] = value,
                    !.updates[u] = [@ EXCEPT !.pc = "sent", !.key = key,
                                             !.value = value,
                                             !.previous = popup.settings[key]]]
    /\ UNCHANGED <<serverVars, call, ret, script, worker, storage, sync>>

\* the background's updateExtensionSettings: chrome.storage.sync.set settles,
\* and the answer is success: true, or success: false from the catch block
updateExtensionSettings(u, ok) ==
    /\ popup.updates[u].pc = "sent"
    /\ sync' = IF ok
               THEN [sync EXCEPT ![popup.updates[u].key] = popup.updates[u].value]
               ELSE sync
    /\ popup' = [popup EXCEPT !.updates[u] =
           [@ EXCEPT !.pc = "answered",
                     !.response = IF ok
                                  THEN <<[success |-> TRUE]>>
                                  ELSE <<[success |-> FALSE, error |-> "set failed"]>>]]
    /\ UNCHANGED <<serverVars, call, ret, script, worker, storage>>

\* document.getElementById(`${key}Toggle`).checked = !value: without such an
\* element getElementById returns null and the assignment throws a TypeError,
\* inside try and then again inside catch, so that nothing is changed
RevertToggle(toggles, key, value) ==
    IF Has(toggles, ToggleId(key))
    THEN [toggles EXCEPT ![ToggleId(key)] = ~value]
    ELSE toggles

\* updateSetting after the await, with the background's answer: nothing more
\* when response.success, the revert of the toggle otherwise
ResponseArrives(u) ==
    /\ popup.updates[u].pc = "answered"
    /\ LET upd == popup.updates[u] IN
       popup' = [popup EXCEPT
                    !.toggles = IF upd.response[1].success
                                THEN @
                                ELSE RevertToggle(@, upd.key, upd.value),
                    !.updates[u] = [@ EXCEPT !.pc = "done",
                                             !.outcome = IF upd.response[1].success
                                                         THEN "success"
                                                         ELSE "failure"]]
    /\ UNCHANGED <<serverVars, call, ret, script, worker, storage, sync>>

\* chrome.runtime.sendMessage rejects, the background not having answered:
\* the catch block of updateSetting reverts the toggle
MessageThrows(u) ==
    /\ popup.updates[u].pc = "sent"
    /\ LET upd == popup.updates[u] IN
       popup' = [popup EXCEPT
                    !.toggles = RevertToggle(@, upd.key, upd.value),
                    !.updates[u] = [@ EXCEPT !.pc = "done", !.outcome = "thrown"]]
    /\ UNCHANGED <<serverVars, call, ret, script, worker, storage, sync>>

\* updateUI, which the popup's analyzeCurrentPage calls after an analysis:
\* both toggles are set from this.settings
updateUI ==
    /\ popup' = [popup EXCEPT
                    !.toggles["autoAnalyzeToggle"] = popup.settings.autoAnalyze,
                    !.toggles["showWindowToggle"] = popup.settings.showFloatingWindow]
    /\ UNCHANGED <<serverVars, call, ret, script, worker, storage, sync>>

InitPopup ==
    /\ ServerInit
    /\ call = NoCall
    /\ ret = <<>>
    /\ script = ScriptConstructed
    /\ worker = WorkerStarted
    /\ storage = StorageEmpty
    /\ sync = SyncInstalled
    /\ popup \in PopupDocuments

NextPopup ==
    \/ \E u \in UpdateIds, key \in SettingKeys : UserToggles(u, key)
    \/ \E u \in UpdateIds, ok \in BOOLEAN : updateExtensionSettings(u, ok)
    \/ \E u \in UpdateIds : ResponseArrives(u)
    \/ \E u \in UpdateIds : MessageThrows(u)
    \/ updateUI

SpecPopup == InitPopup /\ [][NextPopup]_vars

-----------------------------------------------------------------------------
(* Claims *)

\* the analysis a 200 response carries: the response without the two fields
\* attached per response
Analysis(resp) == [f \in (DOMAIN resp) \ {"cached", "timestamp"} |-> resp[f]]

\* request r wrote the cache: it missed, its AI call resolved, it answered 200
Stored(r) ==
    requests[r].pc = "done" /\ requests[r].lookup = "miss" /\ requests[r].status = 200

\* this step is the arrival of request r
Arrives(r) == requests[r].pc = "idle" /\ requests'[r].pc # "idle"

\* C1: of two sequential analyze requests with the same url and content, the
\* first starting on a cache without entry for them, the first issues exactly
\* one AI call and answers cached=false; the second, arriving after the first
\* answered, within the TTL and with no flush in between, answers cached=true
\* and issues no AI call.
C1_SecondIdenticalRequestIsCached ==
    [][\A r1, r2 \in RequestIds :
          ( /\ Stored(r1)
            /\ ~requests[r1].flushed
            /\ now < requests[r1].resp.timestamp + 3600
            /\ Arrives(r2)
            /\ requests'[r2].body = requests[r1].body )
          => ( /\ requests[r1].aiCalls = 1
               /\ requests[r1].resp.cached = FALSE
               /\ requests'[r2].pc = "done"
               /\ requests'[r2].status = 200
               /\ requests'[r2].resp.cached = TRUE
               /\ requests'[r2].aiCalls = 0
               /\ aiCalls' = aiCalls )]_vars

C1_Witness ==
    /\ Stored(1)
    /\ requests[1].aiCalls = 1
    /\ requests[2].pc = "done"
    /\ requests[2].body = requests[1].body
    /\ requests[2].lookup = "hit"
    /\ requests[2].resp.cached = TRUE
    /\ aiCalls = 1

\* this step ends request r's AI call with a failure
AiFails(r) ==
    requests[r].pc = "awaiting" /\ requests'[r].pc = "done" /\ requests'[r].status # 200

\* C2: when the AI call of a request fails, that request made exactly one AI
\* call (no retry) and the cache is left as it was; a later request with the
\* same url and content, no request for that key having stored a result,
\* misses the cache and issues an AI call of its own.
C2_FailureIsNeitherRetriedNorCached ==
    [][\A r \in RequestIds :
          /\ AiFails(r) =>
                /\ cache' = cache
                /\ aiCalls' = aiCalls
                /\ requests'[r].aiCalls = 1
          /\ \A r2 \in RequestIds :
                ( /\ requests[r].pc = "done"
                  /\ requests[r].aiError # <<>>
                  /\ \A q \in RequestIds : requests[q].key = requests[r].key => ~Stored(q)
                  /\ Arrives(r2)
                  /\ requests'[r2].body = requests[r].body )
                => ( /\ requests'[r2].lookup = "miss"
                     /\ requests'[r2].pc = "awaiting"
                     /\ requests'[r2].aiCalls = 1
                     /\ aiCalls' = aiCalls + 1 )]_vars

C2_Witness ==
    /\ requests[1].pc = "done"
    /\ requests[1].aiError # <<>>
    /\ requests[1].aiCalls = 1
    /\ requests[2].body = requests[1].body
    /\ ~requests[2].overlapped
    /\ requests[2].pc = "awaiting"
    /\ aiCalls = 2
    /\ \A k \in Keys : cache[k] = NoEntry

\* C3: a request whose AI call failed is answered with an error, never with
\* 200: 503 when the failure is an AnthropicError or carries the code
\* ENOTFOUND or ECONNREFUSED, 500 'Analysis Failed' for every other failure.
C3_AiFailureIsAnErrorResponse ==
    \A r \in RequestIds :
        requests[r].aiError # <<>> =>
            LET error == requests[r].aiError[1] IN
            /\ requests[r].pc = "done"
            /\ requests[r].status # 200
            /\ IF error.name = "AnthropicError" \/ error.code \in {"ENOTFOUND", "ECONNREFUSED"}
               THEN requests[r].status = 503
               ELSE requests[r].status = 500 /\ requests[r].resp.error = "Analysis Failed"

C3_Witness ==
    /\ requests[1].aiError = <<[name |-> "Error", code |-> "ECONNREFUSED"]>>
    /\ requests[1].status = 503
    /\ requests[2].aiError = <<[name |-> "Error", code |-> ""]>>
    /\ requests[2].status = 500

\* C4: a request arriving while another request for the same key is awaiting
\* its AI call, no request for that key having stored a result yet, misses
\* the cache too and issues its own AI call, so two AI calls for one key are
\* in flight at once; each of the two that is answered 200 answers
\* cached=false.
C4_ConcurrentIdenticalRequestsBothCallTheAi ==
    /\ [][\A r \in RequestIds :
            ( /\ Arrives(r)
              /\ requests'[r].key # <<>>
              /\ Awaiting(r, requests'[r].key) # {}
              /\ \A q \in RequestIds : requests[q].key = requests'[r].key => ~Stored(q) )
            => ( /\ requests'[r].lookup = "miss"
                 /\ requests'[r].pc = "awaiting"
                 /\ requests'[r].overlapped
                 /\ aiCalls' = aiCalls + 1
                 /\ Cardinality({q \in RequestIds :
                        requests'[q].pc = "awaiting" /\ requests'[q].key = requests'[r].key}) >= 2 )]_vars
    /\ [](\A r \in RequestIds :
            (requests[r].lookup = "miss" /\ requests[r].status = 200)
            => (requests[r].aiCalls = 1 /\ requests[r].resp.cached = FALSE))

C4_Witness ==
    /\ Stored(1)
    /\ Stored(2)
    /\ requests[2].overlapped
    /\ requests[1].key = requests[2].key
    /\ requests[1].resp.cached = FALSE
    /\ requests[2].resp.cached = FALSE
    /\ aiCalls = 2

\* C5 as stated: while an entry is live, no write replaces its value.
C5_LiveEntryIsNeverReplaced ==
    [][\A k \in Keys :
          (Live(cache, k, now) /\ cache'[k] # NoEntry)
          => cache'[k][1].v = cache[k][1].v]_vars

\* C5, amended: a hit answers the value the entry holds at that time, and the
\* value of a live entry is replaced only by the write of a request for the
\* same key that was already awaiting its AI call when the entry was written
\* (the last of the concurrent writers wins).
C5_LiveEntryIsReplacedOnlyByConcurrentWriter ==
    [][\A k \in Keys :
          /\ ( /\ Live(cache, k, now)
               /\ cache'[k] # NoEntry
               /\ cache'[k][1].v # cache[k][1].v )
             => \E r \in cache[k][1].pending :
                   /\ requests[r].pc = "awaiting"
                   /\ requests[r].key = k
                   /\ requests'[r].pc = "done"
                   /\ requests'[r].status = 200
                   /\ Analysis(requests'[r].resp) = Analysis(cache'[k][1].v)
          /\ \A r \in RequestIds :
                (Arrives(r) /\ requests'[r].lookup = "hit" /\ requests'[r].key = k)
                => ( /\ Live(cache, k, now)
                     /\ Analysis(requests'[r].resp) = Analysis(cache[k][1].v)
                     /\ cache' = cache )]_vars

C5_Witness ==
    /\ Stored(1)
    /\ Stored(2)
    /\ requests[1].key = requests[2].key
    /\ requests[2].overlapped
    /\ Analysis(requests[1].resp) # Analysis(requests[2].resp)
    /\ \E k \in Keys :
          /\ cache[k] # NoEntry
          /\ cache[k][1].pending = {}
          /\ cache[k][1].writtenAt = requests[1].resp.timestamp
          /\ requests[2].resp.timestamp < requests[1].resp.timestamp
          /\ Analysis(cache[k][1].v) = Analysis(requests[1].resp)

EnrichmentFields ==
    {"technicalMetrics", "seoInsights", "accessibility", "contentFreshness",
     "confidenceScore"}

\* C6: what the cache holds under a key is absent or one complete
\* EnhancedAnalysis, with technicalMetrics, seoInsights, accessibility,
\* contentFreshness and confidenceScore, that one request for that key stored
\* whole; every answer to a cache hit carries the five fields too.
C6_CacheHoldsWholeAnalyses ==
    /\ \A k \in Keys :
          cache[k] # NoEntry =>
             /\ EnrichmentFields \subseteq DOMAIN cache[k][1].v
             /\ \E r \in RequestIds :
                   /\ Stored(r)
                   /\ requests[r].key = k
                   /\ requests[r].resp =
                         Spread(cache[k][1].v,
                                [cached |-> FALSE, timestamp |-> cache[k][1].writtenAt])
    /\ \A r \in RequestIds :
          requests[r].lookup = "hit" =>
             /\ requests[r].status = 200
             /\ EnrichmentFields \subseteq DOMAIN requests[r].resp

C6_Witness ==
    /\ Stored(1)
    /\ requests[2].lookup = "hit"
    /\ requests[2].key = requests[1].key
    /\ requests[2].body # requests[1].body
    /\ cache[requests[1].key] # NoEntry
    /\ Analysis(requests[2].resp) = Analysis(cache[requests[1].key][1].v)

\* C7: a lookup of a key whose entry was written at time t (and neither
\* flushed nor deleted since) hits with the stored value at every time before
\* t + 3600 s and misses at every time after t + 3600 s.
C7_EntryLivesOneHour ==
    [][\A r \in RequestIds :
          ( /\ Arrives(r)
            /\ requests'[r].lookup # "none"
            /\ cache[requests'[r].key] # NoEntry )
          => LET entry == cache[requests'[r].key][1] IN
             /\ now < entry.writtenAt + 3600 =>
                   /\ requests'[r].lookup = "hit"
                   /\ requests'[r].resp =
                         Spread(entry.v, [cached |-> TRUE, timestamp |-> now])
             /\ now > entry.writtenAt + 3600 =>
                   /\ requests'[r].lookup = "miss"
                   /\ cache'[requests'[r].key] = NoEntry]_vars

C7_Witness ==
    /\ Stored(1)
    /\ ~requests[1].flushed
    /\ requests[2].key = requests[1].key
    /\ requests[2].lookup = "miss"
    /\ ~requests[2].overlapped
    /\ requests[2].pc = "awaiting"
    /\ now = requests[1].resp.timestamp + 3600 + 1
    /\ cache[requests[1].key] = NoEntry
    /\ admin.op = "none"

\* C8 as stated: hits and misses never decrease.
C8_CountersNeverDecrease ==
    [][hits' >= hits /\ misses' >= misses]_vars

\* C8, amended: hits and misses never decrease except that a cache flush in
\* development mode resets both to zero; stats, cache listing and a refused
\* flush leave them unchanged; every cache lookup made by analyze increases
\* exactly one of the two by one.
C8_CountersGrowUntilFlushed ==
    [][/\ \/ hits' >= hits /\ misses' >= misses
          \/ nodeEnv = "development" /\ CacheFlush /\ hits' = 0 /\ misses' = 0
       /\ (Stats \/ CacheList \/ (CacheFlush /\ nodeEnv # "development"))
             => (hits' = hits /\ misses' = misses)
       /\ \A r \in RequestIds :
             (Arrives(r) /\ requests'[r].lookup # "none")
             => IF requests'[r].lookup = "hit"
                THEN hits' = hits + 1 /\ misses' = misses
                ELSE hits' = hits /\ misses' = misses + 1
       /\ \A r \in RequestIds :
             (Arrives(r) /\ requests'[r].lookup = "none")
             => (hits' = hits /\ misses' = misses)]_vars

C8_Witness ==
    /\ nodeEnv = "development"
    /\ admin.op = "flush"
    /\ admin.status = 200
    /\ hits = 0
    /\ misses = 0
    /\ Stored(1)
    /\ requests[1].flushed
    /\ requests[2].lookup = "hit"

\* what C9 says of a body: the url is a non-empty string, the content an
\* object, its text a string of 50 to 50000 characters
IsString(obj, f) == Has(obj, f) /\ Has(obj[f], "js") /\ obj[f].js = "string"

C9_Acceptable(body) ==
    /\ IsString(body, "url")
    /\ body.url.length > 0
    /\ Has(body, "content")
    /\ ~Has(body.content, "js")
    /\ IsString(body.content, "text")
    /\ body.content.text.length >= 50
    /\ body.content.text.length <= 50000

\* C9: validation answers 400 exactly when the url is missing (absent, null
\* or empty) or not a string, the content is missing or not an object, or the
\* text is missing, not a string, shorter than 50 or longer than 50000
\* characters, and calls next() otherwise; a text of 49 characters is
\* rejected, 50 and 50000 are accepted, 50001 is rejected.
C9_ValidationRejectsExactlyTheMalformed ==
    (call.fn = "validateAnalysisRequest" /\ ret # <<>>) =>
        /\ ret[1] \in {0, 400}
        /\ ret[1] = 400 <=> ~C9_Acceptable(call.body)
        /\ (IsString(call.body, "url") /\ call.body.url.length > 0 /\
            Has(call.body, "content") /\ IsString(call.body.content, "text")) =>
              LET n == call.body.content.text.length IN
              /\ n = 49 => ret[1] = 400
              /\ n = 50 => ret[1] = 0
              /\ n = 50000 => ret[1] = 0
              /\ n = 50001 => ret[1] = 400

C9_Witness ==
    /\ call.fn = "validateAnalysisRequest"
    /\ ret = <<0>>
    /\ call.body.content.text.length = 50

\* C10: cleanText is idempotent: cleaning a cleaned text changes nothing.
C10_CleanTextIsIdempotent ==
    (call.fn = "cleanText" /\ ret # <<>>) => cleanText(ret[1]) = ret[1]

\* the text of a generateCacheKey input, as <<>> when it is undefined or null
KeyText(input) ==
    IF Has(input.content, "text") /\ input.content.text.js # "null"
    THEN <<input.content.text>> ELSE <<>>

\* C11: generateCacheKey is deterministic (equal inputs give equal keys, and a
\* request's key is the key of its body); two inputs with the same url and the
\* same text (a string, or absent) whose wordCount differs get different keys;
\* the call does not throw when content.text is a string or absent, whether
\* content.wordCount is absent or not.
C11_CacheKeyIsDeterministicAndCountsWords ==
    /\ (call.fn = "generateCacheKey" /\ ret # <<>>) =>
          LET a == call.a
              b == call.b
              textIsString(x) == KeyText(x) = <<>> \/ KeyText(x)[1].js = "string"
              count(x) == IF Has(x.content, "wordCount")
                          THEN <<x.content.wordCount>> ELSE <<>>
          IN  /\ a = b => ret[1].a = ret[1].b
              /\ ( /\ a.url = b.url
                   /\ KeyText(a) = KeyText(b)
                   /\ textIsString(a)
                   /\ count(a) # count(b) )
                 => ( /\ ~ret[1].a.threw
                      /\ ~ret[1].b.threw
                      /\ ret[1].a.key # ret[1].b.key )
              /\ \A x \in {"a", "b"} :
                    textIsString(call[x]) => ~ret[1][x].threw
    /\ \A r \in RequestIds :
          requests[r].key # <<>> =>
              requests[r].key = generateCacheKey(requests[r].body.url, requests[r].body.content)

C11_Witness ==
    /\ call.fn = "generateCacheKey"
    /\ ret # <<>>
    /\ call.a.url = call.b.url
    /\ DOMAIN call.a.content = {}
    /\ DOMAIN call.b.content = {"wordCount"}
    /\ ~ret[1].a.threw
    /\ ~ret[1].b.threw
    /\ ret[1].a.key # ret[1].b.key

\* C12: for every text, extractKeyPhrases returns at most 10 entries, and no
\* entry is a stop word, a word of 3 or fewer characters, or a word that occurs
\* exactly once among the words of the text (lower-cased, punctuation removed).
C12_KeyPhrasesAreFewFrequentAndLong ==
    (call.fn = "extractKeyPhrases" /\ ret # <<>>) =>
        LET words == SplitWhitespace(StripNonWord(toLowerCase(call.text)))
        IN  /\ Len(ret[1]) <= 10
            /\ \A i \in DOMAIN ret[1] :
                  /\ ret[1][i] \notin stopWords
                  /\ Len(ret[1][i]) > 3
                  /\ Cardinality({j \in DOMAIN words : words[j] = ret[1][i]}) >= 2

C12_Witness ==
    /\ call.fn = "extractKeyPhrases"
    /\ ret # <<>>
    /\ Len(ret[1]) = 10
    /\ LET words == SplitWhitespace(StripNonWord(toLowerCase(call.text)))
       IN  /\ Cardinality({words[j] : j \in DOMAIN words}) > 13
           /\ \E j \in DOMAIN words : words[j] \in stopWords
           /\ \E j \in DOMAIN words : Len(words[j]) = 3
           /\ \E j \in DOMAIN words :
                 Cardinality({k \in DOMAIN words : words[k] = words[j]}) = 1

\* C13: confidenceScore is an integer from 0 to 100 for every input: every
\* wordCount (absent, 0, 1000000 among them), every metadata (absent, empty,
\* more than 3 keys) and every image and link count.
C13_ConfidenceScoreIsWithinBounds ==
    /\ (call.fn = "calculateConfidenceScore" /\ ret # <<>>) => ret[1] \in 0..100
    /\ \A r \in RequestIds :
          Has(requests[r].resp, "confidenceScore") =>
              requests[r].resp.confidenceScore \in 0..100

C13_Witness ==
    /\ call.fn = "calculateConfidenceScore"
    /\ ret # <<>>
    /\ Has(call.originalData.content, "wordCount")
    /\ call.originalData.content.wordCount = 1000000
    /\ Has(call.originalData, "metadata")
    /\ Cardinality(DOMAIN call.originalData.metadata) > 3
    /\ Has(call.analysis, "technicalMetrics")
    /\ call.analysis.technicalMetrics.imageCount > 0
    /\ call.analysis.technicalMetrics.linkCount > 0
    /\ ret[1] = 80

\* how a reading time is read: '< 1 min read' is less than a minute, 'n min
\* read' is n minutes, 'h m read' is 60 h + m minutes
ReadingTimes ==
    {<<"< 1 min read", 0>>}
    \cup {<<ToString(n) \o " min read", n>> : n \in 1..MaxReadingMinutes}
    \cup {<<ToString(h) \o "h " \o ToString(m) \o "m read", 60 * h + m>> :
             h \in 0..(MaxReadingMinutes \div 60), m \in 0..59}

\* the durations, in minutes, that the string s denotes
Denoted(s) == {p[2] : p \in {q \in ReadingTimes : q[1] = s}}

\* C14: calculateReadingTime is monotonically non-decreasing: for all word
\* counts 0 < a <= b both results denote a duration, and the one of a is not
\* longer than the one of b, also across the change of format at 60 minutes.
C14_ReadingTimeIsMonotonic ==
    (call.fn = "calculateReadingTime" /\ ret # <<>> /\ 0 < call.a /\ call.a <= call.b) =>
        /\ Cardinality(Denoted(ret[1].a)) = 1
        /\ Cardinality(Denoted(ret[1].b)) = 1
        /\ \A m \in Denoted(ret[1].a), n \in Denoted(ret[1].b) : m <= n

C14_Witness ==
    /\ call.fn = "calculateReadingTime"
    /\ ret # <<>>
    /\ call.a = 225 * 59
    /\ call.b = 225 * 59 + 1
    /\ ret[1].a = "59 min read"
    /\ ret[1].b = "1h 0m read"
    /\ Denoted(ret[1].a) = {59}
    /\ Denoted(ret[1].b) = {60}

\* what C15 says calculateReadingTime(w) is
C15_Expected(w) ==
    IF w < 1 THEN "< 1 min read"
    ELSE LET n == CHOOSE k \in 1..MaxReadingMinutes : 225 * (k - 1) < w /\ w <= 225 * k
         IN  IF n = 1 THEN "1 min read"
             ELSE IF n <= 59 THEN ToString(n) \o " min read"
             ELSE LET H == CHOOSE h \in 0..n : 60 * h <= n /\ n < 60 * (h + 1)
                  IN  ToString(H) \o "h " \o ToString(n - 60 * H) \o "m read"

\* C15: calculateReadingTime(w) is '< 1 min read' for w < 1; otherwise, with
\* n the ceiling of w / 225, it is '1 min read' for n = 1, 'n min read' for n
\* from 2 to 59, and 'Hh Mm read' with H = floor(n / 60) and M = n mod 60 from
\* 60 on; 0 gives '< 1 min read', 225 '1 min read', 450 '2 min read' and 13500
\* '1h 0m read'.
C15_ReadingTimeFormat ==
    (call.fn = "calculateReadingTime" /\ ret # <<>>) =>
        /\ ret[1].a = C15_Expected(call.a)
        /\ ret[1].b = C15_Expected(call.b)
        /\ call.a = 0 => ret[1].a = "< 1 min read"
        /\ call.a = 225 => ret[1].a = "1 min read"
        /\ call.a = 450 => ret[1].a = "2 min read"
        /\ call.a = 13500 => ret[1].a = "1h 0m read"

C15_Witness ==
    /\ call.fn = "calculateReadingTime"
    /\ ret # <<>>
    /\ call.a = 13500
    /\ call.b = 13501
    /\ ret[1].a = "1h 0m read"
    /\ ret[1].b = "1h 1m read"

\* this step is the return of enhanceAnalysis
EnhanceReturns == call.fn = "enhanceAnalysis" /\ ret = <<>> /\ ret' # <<>>

\* out holds every field of ai unchanged except the five enrichment fields,
\* which are the locally computed values, and readingTime, which is the
\* computed one when recomputed and else the AI's (or absent as in ai)
C16_Enhanced(ai, orig, out, recomputed) ==
    /\ DOMAIN out = (DOMAIN ai) \cup EnrichmentFields \cup
                    (IF recomputed THEN {"readingTime"} ELSE {})
    /\ \A f \in (DOMAIN ai) \ (EnrichmentFields \cup {"readingTime"}) : out[f] = ai[f]
    /\ out.technicalMetrics = calculateTechnicalMetrics(orig.content)
    /\ out.seoInsights = analyzeSEO(orig)
    /\ out.accessibility = analyzeAccessibility(orig.content)
    /\ out.contentFreshness = analyzeContentFreshness(orig, now)
    /\ out.confidenceScore = calculateConfidenceScore(out, orig)
    /\ IF recomputed
       THEN out.readingTime = calculateReadingTime(orig.content.wordCount)
       ELSE Has(ai, "readingTime") => out.readingTime = ai.readingTime

\* C16 as stated: readingTime is recomputed whenever wordCount is present.
C16_ReadingTimeRecomputedWhenPresent ==
    [][EnhanceReturns =>
          /\ call' = call
          /\ C16_Enhanced(call.aiAnalysis, call.originalData, ret'[1],
                          Has(call.originalData.content, "wordCount"))]_vars

\* C16, amended: enhance returns a new mapping that holds every field of
\* aiAnalysis unchanged except technicalMetrics, seoInsights, accessibility,
\* contentFreshness and confidenceScore, which are always the locally computed
\* values, and readingTime, which is calculateReadingTime(wordCount) when
\* original.content.wordCount is present and not 0, and otherwise the
\* AI-supplied value; aiAnalysis and original are not modified.
C16_ReadingTimeRecomputedWhenNonZero ==
    [][EnhanceReturns =>
          /\ call' = call
          /\ C16_Enhanced(call.aiAnalysis, call.originalData, ret'[1],
                          /\ Has(call.originalData.content, "wordCount")
                          /\ call.originalData.content.wordCount # 0)]_vars

C16_Witness ==
    /\ call.fn = "enhanceAnalysis"
    /\ ret # <<>>
    /\ Has(call.originalData.content, "wordCount")
    /\ call.originalData.content.wordCount = 0
    /\ Has(call.aiAnalysis, "readingTime")
    /\ ret[1].readingTime = "9 min read"
    /\ Has(call.aiAnalysis, "confidenceScore")
    /\ call.aiAnalysis.confidenceScore = 999
    /\ ret[1].confidenceScore <= 100
    /\ Has(call.aiAnalysis, "keyTakeaways")
    /\ ret[1].keyTakeaways = "k"

\* the value C18 takes the publish date from: the first of the three keys
\* that holds a value (neither absent, null nor empty), as <<>> or <<value>>
C18_PublishDate(data) ==
    LET present(f) ==
            /\ Has(data, "metadata")
            /\ ~Has(data.metadata, "js")
            /\ Has(data.metadata, f)
            /\ data.metadata[f] \notin {Null, Str("", 0)}
        keys == <<"article:published_time", "datePublished", "date">>
    IN  IF \E i \in 1..3 : present(keys[i])
        THEN <<data.metadata[keys[CHOOSE i \in 1..3 :
                   present(keys[i]) /\ \A j \in 1..(i - 1) : ~present(keys[j])]]>>
        ELSE <<>>

\* C18: analyzeContentFreshness takes the publish date from the first present
\* of article:published_time, datePublished, date; when none is present or the
\* value cannot be parsed as a date it returns {hasPublishDate: false,
\* freshness: 'Unknown'} without raising; otherwise daysOld is the floor of the
\* days elapsed since the publish date, and freshness is 'Very Fresh' up to 7
\* days, 'Fresh' up to 30, 'Recent' up to 90, 'Somewhat Old' up to 365 and
\* 'Old' above.
C18_FreshnessFollowsThePublishDate ==
    (call.fn = "analyzeContentFreshness" /\ ret # <<>>) =>
        LET value == C18_PublishDate(call.data)
            time  == IF value = <<>> THEN <<>> ELSE ParseDate(value[1])
        IN  /\ ~Has(ret[1], "thrown")
            /\ IF time = <<>>
               THEN ret[1] = [hasPublishDate |-> FALSE, freshness |-> "Unknown"]
               ELSE LET elapsed == call.now - time[1]
                        day     == 86400
                        days    == CHOOSE d \in -2..(MaxDays + 1) :
                                       d * day <= elapsed /\ elapsed < (d + 1) * day
                    IN  /\ ret[1].hasPublishDate
                        /\ ret[1].daysOld = days
                        /\ ret[1].freshness =
                              CASE days <= 7 -> "Very Fresh"
                                [] days > 7 /\ days <= 30 -> "Fresh"
                                [] days > 30 /\ days <= 90 -> "Recent"
                                [] days > 90 /\ days <= 365 -> "Somewhat Old"
                                [] days > 365 -> "Old"

C18_Witness ==
    /\ call.fn = "analyzeContentFreshness"
    /\ ret # <<>>
    /\ Has(call.data, "metadata")
    /\ DOMAIN call.data.metadata = {"article:published_time", "datePublished"}
    /\ call.data.metadata["article:published_time"] =
          DateString(FreshnessNow - 8 * SecondsPerDay + 1)
    /\ call.now = FreshnessNow
    /\ call.data.metadata["datePublished"] = NotADate
    /\ ret[1].hasPublishDate
    /\ ret[1].daysOld = 7
    /\ ret[1].freshness = "Very Fresh"

\* what C17 asks of a request: images and links are absent or lists of
\* records, the text of a link a string when it has one
C17_ListsOfRecords(body) ==
    /\ Has(body.content, "images") =>
          \A i \in DOMAIN body.content.images : ~Has(body.content.images[i], "js")
    /\ Has(body.content, "links") =>
          \A i \in DOMAIN body.content.links :
              /\ ~Has(body.content.links[i], "js")
              /\ Has(body.content.links[i], "text") =>
                    ~Has(body.content.links[i].text, "js")

C19_HitAnswersTheStoredAnalysis ==
    /\ [][\A r \in RequestIds :
            (Arrives(r) /\ requests'[r].lookup = "hit") =>
                LET entry == cache[requests'[r].key][1]
                    resp  == requests'[r].resp
                IN  /\ requests'[r].status = 200
                    /\ resp = Spread(entry.v, [cached |-> TRUE, timestamp |-> now])
                    /\ \E q \in RequestIds :
                          /\ Stored(q)
                          /\ requests[q].key = requests'[r].key
                          /\ requests[q].resp.timestamp = entry.writtenAt
                          /\ Analysis(resp) = Analysis(requests[q].resp)]_vars
    /\ [](\A r \in RequestIds :
            requests[r].status = 200 =>
                /\ Has(requests[r].resp, "cached")
                /\ Has(requests[r].resp, "timestamp")
                /\ requests[r].resp.cached = (requests[r].lookup = "hit")
                /\ requests[r].resp.timestamp \in Times)

C19_Witness ==
    /\ Stored(1)
    /\ requests[2].lookup = "hit"
    /\ requests[2].key = requests[1].key
    /\ cache[requests[1].key] # NoEntry
    /\ Has(cache[requests[1].key][1].v, "cached")
    /\ cache[requests[1].key][1].v.timestamp = -1
    /\ requests[1].resp.cached = FALSE
    /\ requests[2].resp.cached = TRUE
    /\ requests[2].resp.timestamp > requests[1].resp.timestamp
    /\ Analysis(requests[2].resp) = Analysis(requests[1].resp)

\* a sentence is a run of characters between sentence ends that holds
\* something besides whitespace: a text has none when it is made of sentence
\* ends and whitespace only
C20_NoSentence(s) == \A i \in DOMAIN s : s[i] \in SentenceEnds \cup Whitespace

\* C20: analyzeTextStructure applied to a text that is empty or absent returns
\* { paragraphs: 0, sentences: 0, avgSentenceLength: 0, hasHeadings: false,
\* hasList: false }, and avgSentenceLength is 0 whenever the text has no
\* sentence
C20_NoSentenceNoAverage ==
    (call.fn = "analyzeTextStructure" /\ ret # <<>>) =>
        /\ (~Has(call, "text") \/ call.text = <<>>) =>
               ret[1] = [paragraphs |-> 0, sentences |-> 0,
                         avgSentenceLength |-> 0,
                         hasHeadings |-> FALSE, hasList |-> FALSE]
        /\ (Has(call, "text") /\ C20_NoSentence(call.text)) =>
               ret[1].sentences = 0 /\ ret[1].avgSentenceLength = 0

\* a text of sentence ends and spaces, which is a paragraph of several
\* whitespace-delimited words and no sentence, has been analyzed
C20_Witness ==
    /\ call.fn = "analyzeTextStructure"
    /\ ret # <<>>
    /\ Has(call, "text")
    /\ call.text # <<>>
    /\ C20_NoSentence(call.text)
    /\ Len(SplitWhitespace(call.text)) > 1
    /\ ret[1].paragraphs = 1
    /\ ret[1].avgSentenceLength = 0

\* C21: every value the cache holds under a key is what enhanceAnalysis made
\* of a successful AI result for a request whose cache key is that key, in
\* every reachable state: also when the caller of that request went away
\* before the AI call returned and the write was made all the same, and when
\* the cache was flushed while the request was awaiting the AI.
C21_CacheHoldsEnhancedResultsOfItsKey ==
    \A k \in Keys :
        cache[k] # NoEntry =>
            \E r \in RequestIds, aiAnalysis \in AiResults :
                /\ requests[r].pc = "done"
                /\ requests[r].lookup = "miss"
                /\ requests[r].aiError = <<>>
                /\ generateCacheKey(requests[r].body.url, requests[r].body.content) = k
                /\ cache[k][1].v =
                       enhanceAnalysis(aiAnalysis, requests[r].body, cache[k][1].writtenAt)
                /\ ~Has(cache[k][1].v, "thrown")

\* request 1 missed, its caller went away, the cache was flushed (the misses
\* are back at zero and no other request came) and then its AI call resolved
\* and its write was made
C21_Witness ==
    /\ nodeEnv = "development"
    /\ admin = [op |-> "flush", status |-> 200]
    /\ requests[1].abandoned
    /\ Stored(1)
    /\ ~requests[1].flushed
    /\ misses = 0
    /\ requests[2].pc = "idle"
    /\ cache[requests[1].key] # NoEntry
    /\ Analysis(cache[requests[1].key][1].v) = Analysis(requests[1].resp)

\* the place of the first occurrence of word among the counted words
C22_FirstOccurrence(words, word) ==
    CHOOSE i \in DOMAIN words :
        words[i] = word /\ \A j \in 1..(i - 1) : words[j] # word

\* the words returned are in non-increasing order of frequency
C22_ByFrequency(words, phrases) ==
    \A i, j \in DOMAIN phrases :
        i < j => WordFrequency(words, phrases[i]) >= WordFrequency(words, phrases[j])

\* C22 as stated: extractKeyPhrases returns its words in non-increasing order
\* of frequency, and words of equal frequency, tokens made of digits
\* included, in the order of their first occurrence in the text.
C22_TiesInOrderOfFirstOccurrence ==
    (call.fn = "extractKeyPhrases" /\ ret # <<>>) =>
        LET words == KeyPhraseWords(call.text) IN
        /\ C22_ByFrequency(words, ret[1])
        /\ \A i, j \in DOMAIN ret[1] :
              (i < j /\ WordFrequency(words, ret[1][i]) = WordFrequency(words, ret[1][j]))
              => C22_FirstOccurrence(words, ret[1][i]) < C22_FirstOccurrence(words, ret[1][j])

\* C22, amended: extractKeyPhrases returns its words in non-increasing order
\* of frequency; among words of equal frequency the tokens that are array
\* indices (digits only, no leading zero) come first, in ascending numeric
\* order, and the other words follow in the order of their first occurrence
\* in the text.
C22_TiesInOrderOfObjectKeys ==
    (call.fn = "extractKeyPhrases" /\ ret # <<>>) =>
        LET words == KeyPhraseWords(call.text) IN
        /\ C22_ByFrequency(words, ret[1])
        /\ \A i, j \in DOMAIN ret[1] :
              (i < j /\ WordFrequency(words, ret[1][i]) = WordFrequency(words, ret[1][j]))
              => LET a == ret[1][i]
                     b == ret[1][j]
                 IN  IF IsArrayIndex(a) /\ IsArrayIndex(b)
                     THEN NumericValue(a) < NumericValue(b)
                     ELSE IF IsArrayIndex(b) THEN FALSE
                     ELSE IF IsArrayIndex(a) THEN TRUE
                     ELSE C22_FirstOccurrence(words, a) < C22_FirstOccurrence(words, b)

\* a text where zeta comes before 2024 and 2024 before 1999, each twice, and
\* 0123 three times: the answer has 0123 first and then 1999, 2024, zeta
C22_Witness ==
    /\ call.fn = "extractKeyPhrases"
    /\ ret # <<>>
    /\ Len(ret[1]) >= 5
    /\ ret[1][1] = <<"0", "1", "2", "3">>
    /\ ret[1][2] = <<"w", "o", "r", "d", "b">>
    /\ ret[1][3] = <<"1", "9", "9", "9">>
    /\ ret[1][4] = <<"2", "0", "2", "4">>
    /\ ret[1][5] = <<"z", "e", "t", "a">>

\* the last administrative request was a flush that was carried out, no
\* request is awaiting the AI and none has written to the cache since
C23_JustFlushed ==
    /\ admin = [op |-> "flush", status |-> 200]
    /\ \A q \in RequestIds : requests[q].pc # "awaiting"
    /\ \A q \in RequestIds : Stored(q) => requests[q].flushed

\* C23: the cache listing and the cache flush act only in development mode: in
\* any other mode they answer 403 and leave the cache entries and the counters
\* as they were; in development mode a flush removes every entry, so that,
\* with no request in flight, the next analyze request that passes validation
\* misses the cache and calls the AI, whatever its content.
C23_CacheAdminOnlyInDevelopment ==
    [][/\ ((CacheList \/ CacheFlush) /\ nodeEnv # "development")
             => /\ admin'.status = 403
                /\ cache' = cache
                /\ hits' = hits
                /\ misses' = misses
       /\ (CacheFlush /\ nodeEnv = "development")
             => /\ admin'.status = 200
                /\ \A k \in Keys : cache'[k] = NoEntry
       /\ (CacheList /\ nodeEnv = "development") => admin'.status = 200
       /\ \A r \in RequestIds :
             (C23_JustFlushed /\ Arrives(r) /\ requests'[r].status # 400)
             => /\ requests'[r].lookup = "miss"
                /\ requests'[r].pc = "awaiting"
                /\ aiCalls' = aiCalls + 1]_vars

\* request 1 stored its analysis, the cache was flushed, and request 2 with
\* the same body, arriving within the hour, missed and called the AI
C23_Witness ==
    /\ nodeEnv = "development"
    /\ admin = [op |-> "flush", status |-> 200]
    /\ Stored(1)
    /\ requests[1].flushed
    /\ requests[2].body = requests[1].body
    /\ requests[2].lookup = "miss"
    /\ requests[2].pc = "awaiting"
    /\ ~requests[2].overlapped
    /\ now < requests[1].resp.timestamp + 3600
    /\ aiCalls = 2

\* C24: after any sequence of requests the number of AI calls issued equals
\* the number of validated analyze requests whose cache lookup missed: a
\* validated request issues exactly one AI call when its lookup missed and
\* none when it hit, and a request rejected by validation makes no cache
\* lookup, no AI call and no cache write.
C24_OneAiCallPerMiss ==
    /\ [](/\ aiCalls = Cardinality({r \in RequestIds : requests[r].lookup = "miss"})
          /\ \A r \in RequestIds :
                /\ requests[r].lookup = "miss" => requests[r].aiCalls = 1
                /\ requests[r].lookup = "hit" => requests[r].aiCalls = 0
                /\ requests[r].status = 400 =>
                      /\ requests[r].lookup = "none"
                      /\ requests[r].aiCalls = 0
                /\ (requests[r].pc # "idle" /\ requests[r].status # 400) =>
                      requests[r].lookup \in {"hit", "miss"})
    /\ [][\A r \in RequestIds :
             (Arrives(r) /\ requests'[r].status = 400)
             => /\ validateAnalysisRequest(requests'[r].body) = 400
                /\ cache' = cache
                /\ hits' = hits
                /\ misses' = misses
                /\ aiCalls' = aiCalls]_vars

\* request 1 was rejected by validation; request 2 missed, called the AI once
\* and stored its analysis, the only entry of the cache
C24_Witness ==
    /\ requests[1].pc = "done"
    /\ requests[1].status = 400
    /\ requests[1].lookup = "none"
    /\ Stored(2)
    /\ requests[2].aiCalls = 1
    /\ aiCalls = 1
    /\ hits = 0
    /\ misses = 1
    /\ CacheKeys(cache) = {requests[2].key}

\* two validated bodies with the same url, the same wordCount and texts that
\* agree on their first 1000 characters
C25_SameFingerprint(a, b) ==
    /\ a.url = b.url
    /\ Has(a.content, "wordCount") = Has(b.content, "wordCount")
    /\ Has(a.content, "wordCount") => a.content.wordCount = b.content.wordCount
    /\ a.content.text.head = b.content.text.head

\* the entry under request r's key is the one r wrote, and it has not expired
C25_EntryOfIsLive(r) ==
    /\ Stored(r)
    /\ Live(cache, requests[r].key, now)
    /\ cache[requests[r].key][1].writtenAt = requests[r].resp.timestamp
    /\ Analysis(cache[requests[r].key][1].v) = Analysis(requests[r].resp)

\* C25: two validated requests with the same url, the same wordCount and
\* texts that agree on their first 1000 characters share one cache entry:
\* while the entry of the first is live, the second answers cached=true with
\* the analysis of the first, its seoInsights, accessibility and
\* contentFreshness included, even when its title, metadata, images, links or
\* text beyond character 1000 differ.
C25_SameFingerprintSharesTheEntry ==
    [][\A r1, r2 \in RequestIds :
          ( /\ C25_EntryOfIsLive(r1)
            /\ Arrives(r2)
            /\ requests'[r2].status # 400
            /\ C25_SameFingerprint(requests[r1].body, requests'[r2].body) )
          => ( /\ requests'[r2].lookup = "hit"
               /\ requests'[r2].status = 200
               /\ requests'[r2].resp.cached = TRUE
               /\ Analysis(requests'[r2].resp) = Analysis(requests[r1].resp)
               /\ \A f \in {"seoInsights", "accessibility", "contentFreshness"} :
                     requests'[r2].resp[f] = requests[r1].resp[f]
               /\ aiCalls' = aiCalls
               /\ cache' = cache )]_vars

\* request 2 differs from request 1 in its title, metadata, images, links and
\* the text beyond character 1000, and answered the analysis of request 1,
\* whose insights are not the ones its own body would have got
C25_Witness ==
    /\ Stored(1)
    /\ requests[2].pc = "done"
    /\ requests[2].lookup = "hit"
    /\ requests[2].resp.cached = TRUE
    /\ requests[1].body = Body1
    /\ requests[2].body = Body2
    /\ C25_SameFingerprint(requests[1].body, requests[2].body)
    /\ requests[2].body.title # requests[1].body.title
    /\ requests[2].body.content.text.tail # requests[1].body.content.text.tail
    /\ Has(requests[2].body, "metadata") # Has(requests[1].body, "metadata")
    /\ Has(requests[2].body.content, "images") # Has(requests[1].body.content, "images")
    /\ requests[2].resp.seoInsights = requests[1].resp.seoInsights
    /\ requests[2].resp.seoInsights # analyzeSEO(requests[2].body)
    /\ requests[2].resp.accessibility = requests[1].resp.accessibility
    /\ requests[2].resp.accessibility # analyzeAccessibility(requests[2].body.content)

\* a heading marker at the very start of s
C26_HeadingAtStart(s) ==
    \/ Len(s) >= 1 /\ s[1] = "#"
    \/ /\ Len(s) >= 3
       /\ s[1] = "H"
       /\ s[2] \in {"1", "2", "3", "4", "5", "6"}
       /\ s[3] = ":"

\* a list marker at the very start of s
C26_ListAtStart(s) ==
    Len(s) >= 2 /\ s[1] \in {"-", "*"} /\ s[2] \in Whitespace

\* what C26 says of the structure: at most one paragraph, and markers found
\* only at the very start of the cleaned text
C26_Structure(processed) ==
    /\ processed.structure.paragraphs <= 1
    /\ processed.structure.hasHeadings => C26_HeadingAtStart(processed.text)
    /\ processed.structure.hasList => C26_ListAtStart(processed.text)

C27_InFlight == {i \in RunIds : script.runs[i].pc = "awaiting"}

\* C27: a content script has at most one analysis in flight: analyzeCurrentPage
\* called while isAnalyzing is true, by the auto-analyze timer or by a message
\* of the popup, returns without extracting content and without sending an
\* analyzeContent message, and isAnalyzing is reset to false when the analysis
\* in flight ends, whether with a success, an error response or an exception.
C27_OneAnalysisInFlight ==
    /\ [](/\ Cardinality(C27_InFlight) <= 1
          /\ script.isAnalyzing <=> C27_InFlight # {}
          /\ script.sent = Cardinality({i \in RunIds :
                 \/ script.runs[i].pc = "awaiting"
                 \/ script.runs[i].outcome \in MessageOutcomes}))
    /\ [][\A i \in RunIds :
             /\ ( /\ script.isAnalyzing
                  /\ script.runs[i].pc = "idle"
                  /\ script'.runs[i].pc # "idle" )
                => ( /\ script'.runs[i].pc = "skipped"
                     /\ script'.extractions = script.extractions
                     /\ script'.sent = script.sent
                     /\ script'.floatingWindow = script.floatingWindow
                     /\ script'.isAnalyzing )
             /\ ( /\ script.runs[i].pc = "awaiting"
                  /\ script'.runs[i].pc # "awaiting" )
                => ( /\ script'.runs[i].pc = "done"
                     /\ ~script'.isAnalyzing )]_vars

\* the timer's analysis ended with an exception; a message of the popup then
\* started an analysis, and the next message, arriving while that one is in
\* flight, returned without extracting and without sending
C27_Witness ==
    /\ script.runs[1] = [pc |-> "done", from |-> "timer", outcome |-> "rejected"]
    /\ script.runs[2] = [pc |-> "awaiting", from |-> "popup", outcome |-> "none"]
    /\ script.runs[3] = [pc |-> "skipped", from |-> "popup", outcome |-> "none"]
    /\ script.isAnalyzing
    /\ script.extractions = 2
    /\ script.sent = 2

\* C28: handleContentAnalysis calls sendResponse exactly once for every
\* analyzeContent message, on every path: a hit of the extension's cache, a
\* successful backend response, a backend response that is not 2xx, and an
\* exception thrown by the cache lookup, the fetch or the JSON parsing: never
\* twice, not before the handler ends, and every handler ends.
C28_OneResponsePerMessage ==
    /\ [](\A m \in MessageIds :
             /\ worker[m].responses <= 1
             /\ worker[m].responses = 1 <=> worker[m].pc = "done"
             /\ worker[m].pc = "done" =>
                   LET response == worker[m].response[1] IN
                   IF worker[m].lookup = "hit"
                   THEN response.success /\ response.cached
                   ELSE IF worker[m].fetch = "ok"
                   THEN response.success /\ ~response.cached
                   ELSE ~response.success)
    /\ \A m \in MessageIds :
          (worker[m].pc # "idle") ~> (worker[m].pc = "done" /\ worker[m].responses = 1)

\* message 1 was answered the backend's analysis; the lookup of message 2
\* was rejected, its fetch brought a body that does not parse, and it was
\* answered the failure, once
C28_Witness ==
    /\ worker[1].pc = "done"
    /\ worker[1].fetch = "ok"
    /\ worker[1].responses = 1
    /\ worker[1].response[1].success
    /\ worker[2].pc = "done"
    /\ worker[2].lookup = "rejected"
    /\ worker[2].fetch = "badJson"
    /\ worker[2].responses = 1
    /\ ~worker[2].response[1].success

\* this step ends the handler of message m with the answer of a failure
C29_Fails(m) ==
    /\ worker[m].pc # "done"
    /\ worker'[m].pc = "done"
    /\ ~worker'[m].response[1].success
    /\ worker[m].key # <<>>

\* the handler of message m2 goes on after its lookup, a request for the key
\* of m2 having failed before
C29_NextAfterFailure(m2) ==
    /\ worker[m2].pc = "got"
    /\ worker'[m2].pc # "got"
    /\ \E m \in MessageIds :
          /\ worker[m].pc = "done"
          /\ worker[m].key = worker[m2].key
          /\ ~worker[m].response[1].success

\* no item of the storage is a failed analysis: each is the parsed body of a
\* 2xx response to a request for its key
C29_OnlyAnalysesStored ==
    \A k \in StorageKeys :
        storage[k] # <<>> =>
            /\ ~Has(storage[k][1].data, "error")
            /\ \E m \in MessageIds :
                  /\ worker[m].key = k
                  /\ worker[m].fetch = "ok"
                  /\ worker[m].body = <<storage[k][1].data>>

\* a cached result is answered only from an item younger than 24 hours
C29_HitsAreYoung ==
    \A m \in MessageIds :
        (worker[m].pc = "got" /\ worker'[m].pc = "done")
        => /\ worker[m].got # <<>>
           /\ now - worker[m].got[1].timestamp < 24 * 60 * 60
           /\ worker'[m].response[1].data = worker[m].got[1].data

\* C29 as stated: the extension's cache never holds a failed analysis; after
\* a failed request the storage has no item for that key and the next
\* identical request contacts the backend again; a stored item is returned
\* only while its age is under 24 hours.
C29_NoItemAfterFailure ==
    /\ []C29_OnlyAnalysesStored
    /\ [][/\ \A m \in MessageIds :
                C29_Fails(m) => storage'[worker[m].key] = <<>>
          /\ \A m2 \in MessageIds :
                C29_NextAfterFailure(m2) => worker'[m2].pc = "fetching"
          /\ C29_HitsAreYoung]_vars

\* C29, amended: the extension's cache never holds a failed analysis:
\* cacheAnalysis is reached only after a 2xx response whose body was parsed,
\* and a request that fails writes nothing to the storage, so an item under
\* its key afterwards is the analysis of a request that succeeded; the next
\* identical request contacts the backend again unless its lookup came back
\* with such an item younger than 24 hours; a stored item is returned only
\* while its age is under 24 hours.
C29_FailureStoresNothing ==
    /\ []C29_OnlyAnalysesStored
    /\ [][/\ \A m \in MessageIds :
                /\ C29_Fails(m) => storage' = storage
                /\ worker'[m].pc = "setting" =>
                      /\ worker'[m].fetch = "ok"
                      /\ worker'[m].body = <<BackendAnalysis(worker'[m].key)>>
          /\ \A m2 \in MessageIds :
                C29_NextAfterFailure(m2) =>
                   \/ worker'[m2].pc = "fetching"
                   \/ /\ worker[m2].got # <<>>
                      /\ now - worker[m2].got[1].timestamp < 24 * 60 * 60
          /\ C29_HitsAreYoung]_vars

\* the request of message 1 failed and left no item; message 2, for the same
\* page, fetched the backend again, succeeded and stored the analysis
C29_Witness ==
    /\ worker[1].pc = "done"
    /\ worker[1].lookup = "miss"
    /\ worker[1].fetch = "notOk"
    /\ ~worker[1].response[1].success
    /\ worker[2].pc = "done"
    /\ worker[2].key = worker[1].key
    /\ worker[2].lookup = "miss"
    /\ worker[2].fetch = "ok"
    /\ storage[worker[2].key] # <<>>
    /\ storage[worker[2].key][1].data = worker[2].response[1].data

\* the call u of updateSetting failed, and no other call for its key is
\* under way or was made after it
C30_FailedLast(u) ==
    /\ popup.updates[u].pc = "done"
    /\ popup.updates[u].outcome # "success"
    /\ \A v \in UpdateIds \ {u} :
          popup.updates[v].key = popup.updates[u].key =>
              /\ popup.updates[v].pc = "done"
              /\ v < u

\* C30: after an updateSetting in the popup that fails (the background
\* answers success=false or the message throws) the change is reverted: the
\* popup's in-memory setting for that key and the state of its toggle are
\* equal, both at the previous value, and a later updateUI does not bring the
\* failed value back.
C30_FailedUpdateIsReverted ==
    \A u \in UpdateIds :
        C30_FailedLast(u) =>
            LET key == popup.updates[u].key IN
            /\ popup.settings[key] = popup.toggles[ToggleOf(key)]
            /\ popup.settings[key] = popup.updates[u].previous
            /\ popup.toggles[ToggleOf(key)] # popup.updates[u].value

====
